---- MODULE Spec2Model ----
(***************************************************************************)
(* Model of the adapter normalisation / merge layer of usemcp, of its     *)
(* lock store, of its manifest parser, of the add / remove / list commands *)
(* and of processes that run read-modify-write operations side by side.    *)
(*                                                                         *)
(* A JavaScript object is a function from its own property names to their  *)
(* values; a property that is undefined or missing is a name outside the   *)
(* DOMAIN.  A string that the code splits or tests for a prefix is a       *)
(* sequence (server ids are sequences of characters, header values are     *)
(* sequences of chunks); every other string is a TLA+ string.              *)
(***************************************************************************)
EXTENDS Integers, Sequences, FiniteSets, TLC

VARIABLES
    cfg,      \* the config files on disk: path -> file content
    scope,    \* the scope ('project' | 'user') the invocation works in
    active,   \* the adapters the invocation drives
    lockFile, \* the lock file <home>/.agents/.mcp-lock.json
    now,      \* the clock read by new Date()
    hist,     \* the lock file the process started with, and the ids whose most
              \* recent addLockEntry / removeLockEntry call was addLockEntry
    last,     \* the operation performed last, its arguments and its outcome
    cmd,      \* the command the process is running: its input, the targets left
              \* to handle and what it has reported so far
    procs     \* the processes working on one file: each one's operations not yet
              \* started, started (read done, write pending) and finished

vars == <<cfg, scope, active, lockFile, now, hist, last, cmd, procs>>

----------------------------------------------------------------------------
(* Bounds *)

MaxServers == 2      \* entries a server-map may hold
MaxClock == 2        \* last clock value
MaxCommands == 2     \* commands run one after another on the same disk

----------------------------------------------------------------------------
(* Objects *)

EmptyObj == [x \in {} |-> x]

Has(o, f) == f \in DOMAIN o

\* { ...o, [k]: v }
Put(o, k, v) == [x \in (DOMAIN o) \cup {k} |-> IF x = k THEN v ELSE o[x]]

\* const { [k]: _, ...rest } = o
Rest(o, k) == [x \in (DOMAIN o) \ {k} |-> o[x]]

\* the JSON value null, where an object is expected
Null == [null |-> TRUE]

\* one optional property: present exactly when the flag holds
Opt(flag, f, v) == IF flag THEN [x \in {f} |-> v] ELSE EmptyObj

\* an object assembled from parts with distinct property names
Merge(o1, o2) ==
    [x \in (DOMAIN o1) \cup (DOMAIN o2) |-> IF x \in DOMAIN o1 THEN o1[x] ELSE o2[x]]

----------------------------------------------------------------------------
(* Canonical model: src/src/types.ts *)

Agents == {"claude-code", "claude-desktop", "codex", "opencode"}

Scopes == {"project", "user"}

\* server ids the invocations use: 'a', 'o/a', 'o/b', 'b/'
ServerIds == { <<"a">>, <<"o", "/", "a">>, <<"o", "/", "b">>, <<"b", "/">> }

\* header values, cut after the scheme: 'Bearer t', 'Basic t'
BearerValue == <<"Bearer ", "t">>
BasicValue == <<"Basic ", "t">>

StdioTransport(args, env, cwd) ==
    Merge([type |-> "stdio", command |-> "node", args |-> args],
          Merge(Opt(env, "env", [KEY |-> "value"]), Opt(cwd, "cwd", "/work")))

RemoteTransport(type, hasHeaders, headers) ==
    Merge([type |-> type, url |-> "https://example.com/mcp"],
          Opt(hasHeaders, "headers", headers))

\* the transports the invocations use
Transports ==
    { StdioTransport(<<>>, FALSE, FALSE),
      StdioTransport(<<"server.js">>, TRUE, TRUE),
      RemoteTransport("http", TRUE, [Authorization |-> BearerValue]),
      RemoteTransport("sse", FALSE, EmptyObj) }

NormalizedServer(id, transport, secrets) ==
    [id |-> id, displayName |-> id, transport |-> transport, secrets |-> secrets]

NoServer == [id |-> <<>>]

supportedScopes(a) == IF a = "claude-desktop" THEN {"user"} ELSE {"project", "user"}

----------------------------------------------------------------------------
(* Strings *)

\* authHeader.startsWith(prefix)
StartsWith(s, prefix) == Len(s) >= 1 /\ s[1] = prefix

\* id.split('/').pop(): the text after the final '/', the whole id without one
SplitPop(id) ==
    LET slashes == {i \in 1..Len(id) : id[i] = "/"}
        final == IF slashes = {} THEN 0
                 ELSE CHOOSE i \in slashes : \A j \in slashes : j <= i
    IN  SubSeq(id, final + 1, Len(id))

\* variant of serverName: no fallback to the whole id
serverName_NoFallback(id) == SplitPop(id)

\* server.id.split('/').pop() || server.id : the empty string is falsy
serverName(id) == IF SplitPop(id) # <<>> THEN SplitPop(id) ELSE id

----------------------------------------------------------------------------
(* Files *)

CC_PROJECT == "<cwd>/.mcp.json"
CC_USER == "<CLAUDE_CONFIG_DIR>/config.json"
DESKTOP_CONFIG_PATH == "<home>/Library/Application Support/Claude/claude_desktop_config.json"
CODEX_PROJECT == "<cwd>/.codex/config.toml"
CODEX_USER == "<CODEX_HOME>/config.toml"
OPENCODE_JSON == "<cwd>/opencode.json"
OPENCODE_JSONC == "<cwd>/opencode.jsonc"
OPENCODE_USER == "<configHome>/opencode/opencode.json"

Paths == { CC_PROJECT, CC_USER, DESKTOP_CONFIG_PATH, CODEX_PROJECT, CODEX_USER,
           OPENCODE_JSON, OPENCODE_JSONC, OPENCODE_USER }

\* a file is absent, holds text no parser accepts, or holds a serialised document
Absent == [kind |-> "absent", doc |-> EmptyObj]
Corrupt == [kind |-> "corrupt", doc |-> EmptyObj]
Text(doc) == [kind |-> "doc", doc |-> doc]

existsSync(file) == file.kind # "absent"

\* JSON.parse / TOML.parse / commentJson.parse of a file's content
parse(file) ==
    IF file.kind = "doc" THEN [ok |-> TRUE, value |-> file.doc]
    ELSE [ok |-> FALSE, value |-> EmptyObj]

\* JSON.stringify / TOML.stringify / commentJson.stringify of a document
stringify(config) == Text(config)

----------------------------------------------------------------------------
(* Forward and reverse transforms *)

Thrown == [thrown |-> TRUE]

\* src/src/agents/claude-code.ts
normalizedToClaudeConfig(server) ==
    LET t == server.transport IN
    IF t.type = "stdio"
    THEN Merge([type |-> t.type, command |-> t.command, args |-> t.args],
               Merge(IF Has(t, "env") THEN [env |-> t.env] ELSE EmptyObj,
                     IF Has(t, "cwd") /\ t.cwd # "" THEN [cwd |-> t.cwd] ELSE EmptyObj))
    ELSE Merge([type |-> t.type, url |-> t.url],
               IF Has(t, "headers") THEN [headers |-> t.headers] ELSE EmptyObj)

\* variant of claudeConfigToNormalized: every entry with a url is read as http
claudeConfigToNormalized_AllHttp(name, config) ==
    IF config = Null THEN Thrown ELSE
    LET transportType == IF Has(config, "type") THEN config.type ELSE ""
        transport ==
            IF transportType = "stdio"
            THEN Merge([type |-> "stdio",
                        command |-> IF Has(config, "command") THEN config.command ELSE "",
                        args |-> IF Has(config, "args") THEN config.args ELSE <<>>],
                       Merge(IF Has(config, "env") THEN [env |-> config.env] ELSE EmptyObj,
                             IF Has(config, "cwd") THEN [cwd |-> config.cwd] ELSE EmptyObj))
            ELSE Merge([type |-> "http",
                        url |-> IF Has(config, "url") THEN config.url ELSE ""],
                       IF Has(config, "headers") THEN [headers |-> config.headers]
                       ELSE EmptyObj)
    IN  NormalizedServer(name, transport, <<>>)

claudeConfigToNormalized(name, config) ==
    IF config = Null THEN Thrown ELSE  \* reading a property of null throws
    LET transportType == IF Has(config, "type") THEN config.type ELSE ""
        transport ==
            IF transportType = "stdio"
            THEN Merge([type |-> "stdio",
                        command |-> IF Has(config, "command") THEN config.command ELSE "",
                        args |-> IF Has(config, "args") THEN config.args ELSE <<>>],
                       Merge(IF Has(config, "env") THEN [env |-> config.env] ELSE EmptyObj,
                             IF Has(config, "cwd") THEN [cwd |-> config.cwd] ELSE EmptyObj))
            ELSE Merge([type |-> IF transportType = "http" THEN "http" ELSE "sse",
                        url |-> IF Has(config, "url") THEN config.url ELSE ""],
                       IF Has(config, "headers") THEN [headers |-> config.headers]
                       ELSE EmptyObj)
    IN  NormalizedServer(name, transport, <<>>)

\* src/src/agents/claude-desktop.ts
normalizedToDesktopConfig(server) ==
    LET t == server.transport IN
    IF t.type # "stdio" THEN Thrown
    ELSE Merge([command |-> t.command, args |-> t.args],
               IF Has(t, "env") THEN [env |-> t.env] ELSE EmptyObj)

desktopConfigToNormalized(name, config) ==
    IF config = Null THEN Thrown ELSE  \* reading a property of null throws
    NormalizedServer(name,
        Merge([type |-> "stdio",
               command |-> IF Has(config, "command") THEN config.command ELSE "",
               args |-> IF Has(config, "args") THEN config.args ELSE <<>>],
              IF Has(config, "env") THEN [env |-> config.env] ELSE EmptyObj),
        <<>>)

\* src/src/agents/codex.ts
\* variant of normalizedToCodexConfig: the headers are copied into the entry
normalizedToCodexConfig_KeepsHeaders(server) ==
    LET t == server.transport IN
    IF t.type = "stdio"
    THEN Merge([command |-> t.command, args |-> t.args],
               Merge(IF Has(t, "env") THEN [env |-> t.env] ELSE EmptyObj,
                     IF Has(t, "cwd") /\ t.cwd # "" THEN [cwd |-> t.cwd] ELSE EmptyObj))
    ELSE Merge([url |-> t.url],
               IF Has(t, "headers") THEN [headers |-> t.headers] ELSE EmptyObj)

normalizedToCodexConfig(server) ==
    LET t == server.transport IN
    IF t.type = "stdio"
    THEN Merge([command |-> t.command, args |-> t.args],
               Merge(IF Has(t, "env") THEN [env |-> t.env] ELSE EmptyObj,
                     IF Has(t, "cwd") /\ t.cwd # "" THEN [cwd |-> t.cwd] ELSE EmptyObj))
    ELSE Merge([url |-> t.url],
               IF Has(t, "headers") /\ Has(t.headers, "Authorization")
                  /\ t.headers.Authorization # <<>>
               THEN IF StartsWith(t.headers.Authorization, "Bearer ")
                    THEN [auth |-> [type |-> "bearer", token_env |-> "MCP_TOKEN"]]
                    ELSE [auth |-> [type |-> "custom", token_env |-> "MCP_TOKEN"]]
               ELSE EmptyObj)

codexConfigToNormalized(name, config) ==
    IF config = Null THEN Thrown ELSE  \* reading a property of null throws
    LET transport ==
            IF Has(config, "url") /\ config.url # ""
            THEN Merge([type |-> "http", url |-> config.url],
                       IF Has(config, "auth") /\ Has(config.auth, "token")
                          /\ config.auth.token # ""
                       THEN [headers |->
                                [Authorization |-> <<"Bearer ", config.auth.token>>]]
                       ELSE EmptyObj)
            ELSE Merge([type |-> "stdio",
                        command |-> IF Has(config, "command") THEN config.command ELSE "",
                        args |-> IF Has(config, "args") THEN config.args ELSE <<>>],
                       Merge(IF Has(config, "env") THEN [env |-> config.env] ELSE EmptyObj,
                             IF Has(config, "cwd") THEN [cwd |-> config.cwd] ELSE EmptyObj))
    IN  NormalizedServer(name, transport, <<>>)

\* opencode.ts (printed after the Claude Desktop adapter in claude-desktop.ts)
normalizedToOpencodeConfig(server) ==
    LET t == server.transport IN
    IF t.type = "stdio"
    THEN Merge([type |-> "local", command |-> <<t.command>> \o t.args, enabled |-> TRUE],
               IF Has(t, "env") THEN [environment |-> t.env] ELSE EmptyObj)
    ELSE Merge([type |-> "remote", url |-> t.url, enabled |-> TRUE],
               IF Has(t, "headers") THEN [headers |-> t.headers] ELSE EmptyObj)

\* variant of opencodeConfigToNormalized: args keep the command's first element
opencodeConfigToNormalized_NoSlice(name, config) ==
    IF config = Null THEN Thrown ELSE  \* reading a property of null throws
    LET hasCommand == Has(config, "command")
        transport ==
            IF Has(config, "type") /\ config.type = "local"
            THEN Merge([type |-> "stdio",
                        command |-> IF hasCommand /\ Len(config.command) >= 1
                                    THEN config.command[1] ELSE "",
                        args |-> IF hasCommand THEN config.command ELSE <<>>],
                       IF Has(config, "environment") THEN [env |-> config.environment]
                       ELSE EmptyObj)
            ELSE Merge([type |-> "http",
                        url |-> IF Has(config, "url") THEN config.url ELSE ""],
                       IF Has(config, "headers") THEN [headers |-> config.headers]
                       ELSE EmptyObj)
    IN  NormalizedServer(name, transport, <<>>)

opencodeConfigToNormalized(name, config) ==
    IF config = Null THEN Thrown ELSE  \* reading a property of null throws
    LET hasCommand == Has(config, "command")
        transport ==
            IF Has(config, "type") /\ config.type = "local"
            THEN Merge([type |-> "stdio",
                        command |-> IF hasCommand /\ Len(config.command) >= 1
                                    THEN config.command[1] ELSE "",
                        args |-> IF hasCommand /\ Len(config.command) >= 1
                                 THEN Tail(config.command) ELSE <<>>],
                       IF Has(config, "environment") THEN [env |-> config.environment]
                       ELSE EmptyObj)
            ELSE Merge([type |-> "http",
                        url |-> IF Has(config, "url") THEN config.url ELSE ""],
                       IF Has(config, "headers") THEN [headers |-> config.headers]
                       ELSE EmptyObj)
    IN  NormalizedServer(name, transport, <<>>)

\* the forward transform addServer of adapter a applies
Forward(a, server) ==
    CASE a = "claude-code" -> normalizedToClaudeConfig(server)
      [] a = "claude-desktop" -> normalizedToDesktopConfig(server)
      [] a = "codex" -> normalizedToCodexConfig(server)
      [] a = "opencode" -> normalizedToOpencodeConfig(server)

\* the reverse transform listInstalled of adapter a applies
Reverse(a, name, config) ==
    CASE a = "claude-code" -> claudeConfigToNormalized(name, config)
      [] a = "claude-desktop" -> desktopConfigToNormalized(name, config)
      [] a = "codex" -> codexConfigToNormalized(name, config)
      [] a = "opencode" -> opencodeConfigToNormalized(name, config)

----------------------------------------------------------------------------
(* Agent adapters: the operations of the shared contract *)

UnsupportedScope == "only supports user scope"
InvalidConfig == "Invalid config in path"

\* variant of getConfigPath: OpenCode tests opencode.json first
getConfigPath_JsonFirst(a, sc, fs) ==
    CASE a = "claude-code" ->
            [ok |-> TRUE, path |-> IF sc = "project" THEN CC_PROJECT ELSE CC_USER]
      [] a = "claude-desktop" ->
            IF sc # "user" THEN [ok |-> FALSE, path |-> ""]
            ELSE [ok |-> TRUE, path |-> DESKTOP_CONFIG_PATH]
      [] a = "codex" ->
            [ok |-> TRUE, path |-> IF sc = "project" THEN CODEX_PROJECT ELSE CODEX_USER]
      [] a = "opencode" ->
            [ok |-> TRUE,
             path |-> IF sc = "project"
                      THEN IF existsSync(fs[OPENCODE_JSON]) THEN OPENCODE_JSON
                           ELSE OPENCODE_JSONC
                      ELSE OPENCODE_USER]

\* getConfigPath of the four adapters
getConfigPath(a, sc, fs) ==
    CASE a = "claude-code" ->
            [ok |-> TRUE, path |-> IF sc = "project" THEN CC_PROJECT ELSE CC_USER]
      [] a = "claude-desktop" ->
            IF sc # "user" THEN [ok |-> FALSE, path |-> ""]
            ELSE [ok |-> TRUE, path |-> DESKTOP_CONFIG_PATH]
      [] a = "codex" ->
            [ok |-> TRUE, path |-> IF sc = "project" THEN CODEX_PROJECT ELSE CODEX_USER]
      [] a = "opencode" ->
            [ok |-> TRUE,
             path |-> IF sc = "project"
                      THEN IF existsSync(fs[OPENCODE_JSONC]) THEN OPENCODE_JSONC
                           ELSE OPENCODE_JSON
                      ELSE OPENCODE_USER]

\* the top-level key that holds the adapter's server-map
serverMapKey(a) ==
    CASE a \in {"claude-code", "claude-desktop"} -> "mcpServers"
      [] a = "codex" -> "mcp_servers"
      [] a = "opencode" -> "mcp"

\* parsed.mcpServers || {}, parsed.mcp_servers || {}, parsed.mcp?.servers || {}
serverMapOf(a, parsed) ==
    IF a = "opencode"
    THEN IF Has(parsed, "mcp") /\ Has(parsed.mcp, "servers") THEN parsed.mcp.servers
         ELSE EmptyObj
    ELSE IF Has(parsed, serverMapKey(a)) THEN parsed[serverMapKey(a)] ELSE EmptyObj

\* config.mcpServers = servers, config.mcp_servers = servers,
\* if (!config.mcp) config.mcp = {}; config.mcp.servers = servers
setServerMap(a, config, servers) ==
    IF a = "opencode"
    THEN Put(config, "mcp",
             Put(IF Has(config, "mcp") THEN config.mcp ELSE EmptyObj, "servers", servers))
    ELSE Put(config, serverMapKey(a), servers)

\* variant of readConfigAt: no existsSync test, a missing file fails to parse
readConfigAt_NoExistsTest(a, p, parsed, exists) ==
    IF ~p.ok
    THEN [ok |-> FALSE, error |-> UnsupportedScope, path |-> "", servers |-> EmptyObj]
    ELSE IF ~parsed.ok
    THEN [ok |-> FALSE, error |-> InvalidConfig, path |-> p.path, servers |-> EmptyObj]
    ELSE [ok |-> TRUE, error |-> "", path |-> p.path,
          servers |-> serverMapOf(a, parsed.value)]

\* variant of readConfigAt: a file that does not parse reads as an empty server-map
readConfigAt_Lenient(a, p, parsed, exists) ==
    IF ~p.ok
    THEN [ok |-> FALSE, error |-> UnsupportedScope, path |-> "", servers |-> EmptyObj]
    ELSE IF ~exists \/ ~parsed.ok
    THEN [ok |-> TRUE, error |-> "", path |-> p.path, servers |-> EmptyObj]
    ELSE [ok |-> TRUE, error |-> "", path |-> p.path,
          servers |-> serverMapOf(a, parsed.value)]

\* readConfig once the path is computed and the file is read and parsed
readConfigAt(a, p, parsed, exists) ==
    IF ~p.ok
    THEN [ok |-> FALSE, error |-> UnsupportedScope, path |-> "", servers |-> EmptyObj]
    ELSE IF ~exists
    THEN [ok |-> TRUE, error |-> "", path |-> p.path, servers |-> EmptyObj]
    ELSE IF ~parsed.ok
    THEN [ok |-> FALSE, error |-> InvalidConfig, path |-> p.path, servers |-> EmptyObj]
    ELSE [ok |-> TRUE, error |-> "", path |-> p.path,
          servers |-> serverMapOf(a, parsed.value)]

readConfig(a, sc, fs) ==
    LET p == getConfigPath(a, sc, fs) IN
    IF p.ok THEN readConfigAt(a, p, parse(fs[p.path]), existsSync(fs[p.path]))
    ELSE readConfigAt(a, p, [ok |-> FALSE, value |-> EmptyObj], FALSE)

\* variant of existingConfig: always start from an empty document
existingConfig_Fresh(file) == EmptyObj

\* the document writeConfig starts from: the parsed file, {} when absent or invalid
existingConfig(file) ==
    IF existsSync(file) /\ parse(file).ok THEN parse(file).value ELSE EmptyObj

\* variant of writeConfig: a file that does not parse is an error, as in readConfig
writeConfig_Strict(a, sc, fs, servers) ==
    LET p == getConfigPath(a, sc, fs) IN
    IF ~p.ok
    THEN [ok |-> FALSE, error |-> UnsupportedScope, path |-> "", files |-> fs]
    ELSE IF existsSync(fs[p.path]) /\ ~parse(fs[p.path]).ok
    THEN [ok |-> FALSE, error |-> InvalidConfig, path |-> p.path, files |-> fs]
    ELSE [ok |-> TRUE, error |-> "", path |-> p.path,
          files |-> [fs EXCEPT ![p.path] =
                        stringify(setServerMap(a, existingConfig(fs[p.path]), servers))]]

writeConfig(a, sc, fs, servers) ==
    LET p == getConfigPath(a, sc, fs) IN
    IF ~p.ok
    THEN [ok |-> FALSE, error |-> UnsupportedScope, path |-> "", files |-> fs]
    ELSE [ok |-> TRUE, error |-> "", path |-> p.path,
          files |-> [fs EXCEPT ![p.path] =
                        stringify(setServerMap(a, existingConfig(fs[p.path]), servers))]]

\* the minimal server listInstalled returns for an entry it cannot convert
Placeholder(name) ==
    NormalizedServer(name, [type |-> "stdio", command |-> "unknown", args |-> <<>>], <<>>)

\* the try / catch around the reverse transform of one entry
listedServer(a, name, config) ==
    LET normalized == Reverse(a, name, config) IN
    IF Has(normalized, "thrown") THEN Placeholder(name) ELSE normalized

\* variant of listInstalled: no try / catch, an entry that throws aborts the listing
listInstalled_NoCatch(a, sc, fs) ==
    LET r == readConfig(a, sc, fs) IN
    IF \E k \in DOMAIN r.servers : Has(Reverse(a, k, r.servers[k]), "thrown")
    THEN [ok |-> FALSE, error |-> "TypeError", path |-> r.path, list |-> {}]
    ELSE [ok |-> r.ok, error |-> r.error, path |-> r.path,
          list |-> {[name |-> k, server |-> Reverse(a, k, r.servers[k])] :
                       k \in DOMAIN r.servers}]

listInstalled(a, sc, fs) ==
    LET r == readConfig(a, sc, fs) IN
    [ok |-> r.ok, error |-> r.error, path |-> r.path,
     list |-> {[name |-> k, server |-> listedServer(a, k, r.servers[k])] :
                  k \in DOMAIN r.servers}]

\* variant of newServers: the servers read are not spread into the new map
newServers_NoSpread(servers, name, config) == Put(EmptyObj, name, config)

\* variant of newServers: the spread comes last, an existing entry wins
newServers_SpreadLast(servers, name, config) ==
    IF Has(servers, name) THEN servers ELSE Put(servers, name, config)

\* { ...servers, [serverName]: config }
newServers(servers, name, config) == Put(servers, name, config)

\* the outcome of a read-modify-write, given the read and the write it made
Completed(r, w, fs) ==
    IF ~r.ok
    THEN [result |-> "error", error |-> r.error, path |-> r.path,
          warned |-> FALSE, files |-> fs]
    ELSE IF ~w.ok
    THEN [result |-> "error", error |-> w.error, path |-> r.path,
          warned |-> FALSE, files |-> fs]
    ELSE [result |-> "ok", error |-> "", path |-> r.path,
          warned |-> FALSE, files |-> w.files]

addServerFrom(a, sc, fs, server, r) ==
    Completed(r,
              writeConfig(a, sc, fs,
                  newServers(r.servers, serverName(server.id), Forward(a, server))),
              fs)

\* variant of addServer: no transport test, normalizedToDesktopConfig throws
addServer_NoSkip(a, sc, fs, server) ==
    IF a = "claude-desktop" /\ server.transport.type # "stdio"
    THEN IF ~readConfig(a, sc, fs).ok
         THEN addServerFrom(a, sc, fs, server, readConfig(a, sc, fs))
         ELSE [result |-> "error", error |-> "Claude Desktop only supports stdio transport",
               path |-> readConfig(a, sc, fs).path, warned |-> FALSE, files |-> fs]
    ELSE addServerFrom(a, sc, fs, server, readConfig(a, sc, fs))

addServer(a, sc, fs, server) ==
    IF a = "claude-desktop" /\ server.transport.type # "stdio"
    THEN [result |-> "skipped", error |-> "", path |-> "", warned |-> TRUE, files |-> fs]
    ELSE addServerFrom(a, sc, fs, server, readConfig(a, sc, fs))

\* variant of removeServerFrom: a key that is not installed is an error
removeServerFrom_Strict(a, sc, fs, serverKey, r) ==
    IF r.ok /\ ~Has(r.servers, serverKey)
    THEN [result |-> "error", error |-> "not installed", path |-> r.path,
          warned |-> FALSE, files |-> fs]
    ELSE Completed(r, writeConfig(a, sc, fs, Rest(r.servers, serverKey)), fs)

removeServerFrom(a, sc, fs, serverKey, r) ==
    Completed(r, writeConfig(a, sc, fs, Rest(r.servers, serverKey)), fs)

removeServer(a, sc, fs, serverKey) ==
    removeServerFrom(a, sc, fs, serverKey, readConfig(a, sc, fs))

----------------------------------------------------------------------------
(* Initial states *)

\* the content a config file has beside the adapter's server-map
OtherDoc(a) ==
    CASE a \in {"claude-code", "claude-desktop"} -> [otherSetting |-> "value"]
      [] a = "codex" -> [settings |-> [model |-> "gpt-4"]]
      [] a = "opencode" -> [otherSetting |-> "value", mcp |-> [timeout |-> "30"]]

InitFiles(a) == {Absent, Corrupt, Text(OtherDoc(a))}

OnlyFile(path, file) == [p \in Paths |-> IF p = path THEN file ELSE Absent]

InitCfgs(a, sc) ==
    IF a = "opencode" /\ sc = "project"
    THEN {OnlyFile(OPENCODE_JSON, f) : f \in InitFiles(a)}
         \cup {[OnlyFile(OPENCODE_JSON, Text(OtherDoc(a))) EXCEPT ![OPENCODE_JSONC] = f] :
                  f \in InitFiles(a) \ {Absent}}
    ELSE IF a = "claude-desktop"
    THEN {OnlyFile(DESKTOP_CONFIG_PATH, f) : f \in InitFiles(a)}
    ELSE {OnlyFile(getConfigPath(a, sc, OnlyFile("", Absent)).path, f) : f \in InitFiles(a)}

Outcome(op, a, server, key, result, error, path, warned, pre, ret, follows, first) ==
    [op |-> op, agent |-> a, server |-> server, key |-> key, result |-> result,
     error |-> error, path |-> path, warned |-> warned, pre |-> pre, ret |-> ret,
     follows |-> follows, first |-> first]

NoOutcome(pre) ==
    Outcome("none", "", NoServer, <<>>, "ok", "", "", FALSE, pre, EmptyObj, FALSE, "")

\* no command is running
NoCommand == [kind |-> "none"]

\* no operation is in flight
NoProcs == <<>>

Init ==
    /\ scope \in Scopes
    /\ \E a \in Agents : active = {a} /\ cfg \in InitCfgs(a, scope)
    /\ lockFile = Absent
    /\ now = 0
    /\ hist = [start |-> lockFile, added |-> {}]
    /\ last = NoOutcome(cfg)
    /\ cmd = NoCommand
    /\ procs = NoProcs

----------------------------------------------------------------------------
(* Adapter operations as steps *)

\* the server-maps writeConfig is called with directly; a JSON file can hold null
\* where an entry is expected, a TOML file cannot
WriteInputs(a) ==
    { EmptyObj,
      Put(EmptyObj, <<"a">>,
          Forward(a, NormalizedServer(<<"a">>, StdioTransport(<<>>, FALSE, FALSE), <<>>))) }
    \cup (IF a = "codex" THEN {} ELSE {Put(EmptyObj, <<"a">>, Null)})

\* the keys removeServer is called with
RemoveKeys == {serverName(id) : id \in ServerIds}

DoGetConfigPath(a) ==
    \E p \in {getConfigPath(a, scope, cfg)} :
    /\ last' = Outcome("getConfigPath", a, NoServer, <<>>,
                       IF p.ok THEN "ok" ELSE "error",
                       IF p.ok THEN "" ELSE UnsupportedScope,
                       p.path, FALSE, cfg, p.path, FALSE, "")
    /\ UNCHANGED <<cmd, procs, hist, cfg, scope, active, lockFile, now>>

DoReadConfig(a) ==
    \E r \in {readConfig(a, scope, cfg)} :
    /\ last' = Outcome("readConfig", a, NoServer, <<>>,
                       IF r.ok THEN "ok" ELSE "error", r.error, r.path, FALSE, cfg,
                       r.servers, FALSE, "")
    /\ UNCHANGED <<cmd, procs, hist, cfg, scope, active, lockFile, now>>

DoWriteConfig(a, servers) ==
    \E w \in {writeConfig(a, scope, cfg, servers)} :
    /\ cfg' = w.files
    /\ last' = Outcome("writeConfig", a, NoServer, <<>>,
                       IF w.ok THEN "ok" ELSE "error", w.error, w.path, FALSE, cfg,
                       servers, FALSE, "")
    /\ UNCHANGED <<cmd, procs, hist, scope, active, lockFile, now>>

\* listInstalled; when it directly follows a successful addServer of the same
\* adapter, the step remembers the server that was added
DoListInstalled(a) ==
    \E r \in {listInstalled(a, scope, cfg)},
       afterAdd \in {last.op = "addServer" /\ last.agent = a /\ last.result = "ok"} :
    /\ last' = Outcome("listInstalled", a,
                       IF afterAdd THEN last.server ELSE NoServer, <<>>,
                       IF r.ok THEN "ok" ELSE "error", r.error, r.path, FALSE, cfg,
                       r.list, afterAdd, "")
    /\ UNCHANGED <<cmd, procs, hist, cfg, scope, active, lockFile, now>>

DoAddServer(a, server) ==
    \E r \in {addServer(a, scope, cfg, server)}, before \in {readConfig(a, scope, cfg)} :
    /\ before.ok =>
          Cardinality(DOMAIN before.servers \cup {serverName(server.id)}) <= MaxServers
    /\ cfg' = r.files
    /\ last' = Outcome("addServer", a, server, serverName(server.id), r.result, r.error,
                       r.path, r.warned, cfg, EmptyObj, FALSE, "")
    /\ UNCHANGED <<cmd, procs, hist, scope, active, lockFile, now>>

\* removeServer; the step remembers whether it directly follows a removeServer
\* of the same adapter for the same key, and how that one ended
DoRemoveServer(a, key) ==
    \E r \in {removeServer(a, scope, cfg, key)},
       again \in {last.op = "removeServer" /\ last.agent = a /\ last.key = key} :
    /\ cfg' = r.files
    /\ last' = Outcome("removeServer", a, NoServer, key, r.result, r.error, r.path,
                       r.warned, cfg, EmptyObj, again, IF again THEN last.result ELSE "")
    /\ UNCHANGED <<cmd, procs, hist, scope, active, lockFile, now>>

Next ==
    \/ \E a \in active : DoGetConfigPath(a)
    \/ \E a \in active : DoReadConfig(a)
    \/ \E a \in active : \E servers \in WriteInputs(a) : DoWriteConfig(a, servers)
    \/ \E a \in active : DoListInstalled(a)
    \/ \E a \in active, id \in ServerIds, t \in Transports :
          DoAddServer(a, NormalizedServer(id, t, <<>>))
    \/ \E a \in active, key \in RemoveKeys : DoRemoveServer(a, key)

Spec == Init /\ [][Next]_vars

----------------------------------------------------------------------------
(* Lock store: src/src/lock.ts *)

CURRENT_LOCK_VERSION == 1

DefaultLock == [version |-> CURRENT_LOCK_VERSION, servers |-> EmptyObj]

\* the secret names in the order Array.prototype.sort puts them
SecretNames == <<"API_KEY", "TOKEN">>

Rank(name) == CHOOSE i \in 1..Len(SecretNames) : SecretNames[i] = name

RECURSIVE Insert(_, _)
Insert(name, sorted) ==
    IF sorted = <<>> THEN <<name>>
    ELSE IF Rank(name) <= Rank(Head(sorted)) THEN <<name>> \o sorted
    ELSE <<Head(sorted)>> \o Insert(name, Tail(sorted))

RECURSIVE Sort(_)
Sort(names) == IF names = <<>> THEN <<>> ELSE Insert(Head(names), Sort(Tail(names)))

\* createHash('sha256').update(data).digest('hex').slice(0, 16): the digest stands
\* for the text it was computed from, distinct texts have distinct digests
sha256Hex16(data) == [sha256 |-> data]

\* a server as generateMetadataHash receives it: a JavaScript object keeps the
\* order in which its properties were inserted; envOrder is that order for the
\* properties of transport.env (empty without env)
HashedServer(id, transport, secrets, envOrder) ==
    Merge(NormalizedServer(id, transport, secrets), [envOrder |-> envOrder])

\* JSON.stringify of the transport: the properties of env are written in
\* insertion order
stringifyTransport(transport, envOrder) ==
    IF Has(transport, "env")
    THEN [transport EXCEPT !.env =
             [i \in 1..Len(envOrder) |-> <<envOrder[i], transport.env[envOrder[i]]>>]]
    ELSE transport

generateMetadataHash(server) ==
    sha256Hex16([id |-> server.id,
                 transport |-> stringifyTransport(server.transport, server.envOrder),
                 secrets |-> Sort([i \in 1..Len(server.secrets) |-> server.secrets[i].name])])

\* variant of readLockFile: no test for a numeric version
readLockFile_NoVersionTest(file) ==
    IF ~parse(file).ok THEN DefaultLock
    ELSE LET parsed == parse(file).value IN
         IF ~Has(parsed, "servers") THEN DefaultLock
         ELSE IF ~Has(parsed, "version") \/ parsed.version < CURRENT_LOCK_VERSION
         THEN [version |-> CURRENT_LOCK_VERSION, servers |-> parsed.servers]
         ELSE parsed

readLockFile(file) ==
    IF ~parse(file).ok THEN DefaultLock
    ELSE LET parsed == parse(file).value IN
         IF ~Has(parsed, "version") \/ ~Has(parsed, "servers") THEN DefaultLock
         ELSE IF parsed.version < CURRENT_LOCK_VERSION
         THEN [version |-> CURRENT_LOCK_VERSION, servers |-> parsed.servers]
         ELSE parsed

writeLockFile(lock) == stringify(lock)

\* variant of newLockEntry: the targets of the entry read are kept in front
newLockEntry_MergeTargets(lock, serverId, source, server, targets, time) ==
    Merge([serverId |-> serverId,
           source |-> source,
           metadataHash |-> generateMetadataHash(server),
           targets |-> IF Has(lock.servers, serverId)
                       THEN lock.servers[serverId].targets \o targets
                       ELSE targets,
           installedAt |-> IF Has(lock.servers, serverId)
                              /\ Has(lock.servers[serverId], "installedAt")
                           THEN lock.servers[serverId].installedAt
                           ELSE time,
           updatedAt |-> time],
          IF source.type = "registry" THEN [version |-> "latest"] ELSE EmptyObj)

\* the entry addLockEntry builds from its arguments and the lock it read
newLockEntry(lock, serverId, source, server, targets, time) ==
    Merge([serverId |-> serverId,
           source |-> source,
           metadataHash |-> generateMetadataHash(server),
           targets |-> targets,
           installedAt |-> IF Has(lock.servers, serverId)
                              /\ Has(lock.servers[serverId], "installedAt")
                           THEN lock.servers[serverId].installedAt
                           ELSE time,
           updatedAt |-> time],
          IF source.type = "registry" THEN [version |-> "latest"] ELSE EmptyObj)

\* addLockEntry after its readLockFile: the lock read, changed and written
addLockEntryFrom(lock, serverId, source, server, targets, time) ==
    writeLockFile([lock EXCEPT !.servers =
        Put(lock.servers, serverId,
            newLockEntry(lock, serverId, source, server, targets, time))])

addLockEntry(file, serverId, source, server, targets, time) ==
    addLockEntryFrom(readLockFile(file), serverId, source, server, targets, time)

\* variant of removeLockEntry: the lock is written back without the delete
removeLockEntry_KeepsEntry(file, serverId) ==
    LET lock == readLockFile(file) IN writeLockFile(lock)

\* removeLockEntry after its readLockFile
removeLockEntryFrom(lock, serverId) ==
    writeLockFile([lock EXCEPT !.servers = Rest(lock.servers, serverId)])

removeLockEntry(file, serverId) == removeLockEntryFrom(readLockFile(file), serverId)

getLockEntry(file, serverId) ==
    LET lock == readLockFile(file) IN
    IF Has(lock.servers, serverId)
    THEN [found |-> TRUE, entry |-> lock.servers[serverId]]
    ELSE [found |-> FALSE, entry |-> EmptyObj]

listLockEntries(file) ==
    LET lock == readLockFile(file) IN {lock.servers[id] : id \in DOMAIN lock.servers}

\* variant of updateLockEntryTargets: the write is outside the test for the entry
updateLockEntryTargets_AlwaysWrites(file, serverId, targets, time) ==
    LET lock == readLockFile(file) IN
    IF Has(lock.servers, serverId)
    THEN writeLockFile([lock EXCEPT !.servers[serverId] =
             [lock.servers[serverId] EXCEPT !.targets = targets, !.updatedAt = time]])
    ELSE writeLockFile(lock)

\* updateLockEntryTargets after its readLockFile; without the entry the file stays
\* as it is
updateLockEntryTargetsFrom(file, lock, serverId, targets, time) ==
    IF Has(lock.servers, serverId)
    THEN writeLockFile([lock EXCEPT !.servers[serverId] =
             [lock.servers[serverId] EXCEPT !.targets = targets, !.updatedAt = time]])
    ELSE file

updateLockEntryTargets(file, serverId, targets, time) ==
    updateLockEntryTargetsFrom(file, readLockFile(file), serverId, targets, time)

----------------------------------------------------------------------------
(* Lock store operations as steps *)

LockIds == { <<"a">>, <<"o", "/", "a">> }

TargetClaude == [agent |-> "claude-code", scope |-> "project", installedName |-> "server"]
TargetCodex == [agent |-> "codex", scope |-> "project", installedName |-> "server"]

\* the arguments addLockEntry is called with: source, server transport, the order
\* of the properties of its env, secrets, targets
AddCalls ==
    { [source |-> [type |-> "registry", url |-> "https://registry.mcp.io"],
       transport |-> Merge(StdioTransport(<<"server.js">>, FALSE, FALSE),
                           [env |-> [A |-> "1", B |-> "2"]]),
       envOrder |-> <<"A", "B">>,
       secrets |-> <<[name |-> "TOKEN", required |-> TRUE],
                     [name |-> "API_KEY", required |-> FALSE]>>,
       targets |-> <<TargetClaude, TargetCodex>>],
      [source |-> [type |-> "local", url |-> "stdio:node"],
       transport |-> StdioTransport(<<"new.js">>, FALSE, FALSE),
       envOrder |-> <<>>,
       secrets |-> <<>>,
       targets |-> <<TargetCodex>>] }

UpdateTargets == { <<TargetClaude>> }

\* an entry an earlier invocation left in the lock file
EarlierEntry ==
    newLockEntry(DefaultLock, <<"a">>, [type |-> "local", url |-> "stdio:node"],
                 HashedServer(<<"a">>, StdioTransport(<<>>, FALSE, FALSE), <<>>, <<>>),
                 <<TargetClaude>>, 0)

EarlierServers == [id \in {<<"a">>} |-> EarlierEntry]

InitLockFiles ==
    { Absent, Corrupt,
      Text(DefaultLock),
      Text([servers |-> EarlierServers]),
      Text([version |-> CURRENT_LOCK_VERSION]),
      Text([version |-> 0, servers |-> EarlierServers]),
      Text([version |-> 2, servers |-> EarlierServers]) }

InitLock ==
    /\ scope = "project"
    /\ active = {}
    /\ cfg = OnlyFile("", Absent)
    /\ lockFile \in InitLockFiles
    /\ now = 0
    /\ hist = [start |-> lockFile, added |-> {}]
    /\ last = NoOutcome(lockFile)
    /\ cmd = NoCommand
    /\ procs = NoProcs

Tick ==
    /\ now < MaxClock
    /\ now' = now + 1
    /\ UNCHANGED <<cmd, procs, hist, cfg, scope, active, lockFile, last>>

DoAddLockEntry(serverId, call) ==
    /\ lockFile' = addLockEntry(lockFile, serverId, call.source,
                       HashedServer(serverId, call.transport, call.secrets, call.envOrder),
                       call.targets, now)
    /\ hist' = [hist EXCEPT !.added = @ \cup {serverId}]
    /\ last' = Outcome("addLockEntry", "",
                       HashedServer(serverId, call.transport, call.secrets, call.envOrder),
                       serverId, "ok", "", "", FALSE, lockFile,
                       [source |-> call.source, targets |-> call.targets, time |-> now],
                       FALSE, "")
    /\ UNCHANGED <<cmd, procs, cfg, scope, active, now>>

DoRemoveLockEntry(serverId) ==
    /\ lockFile' = removeLockEntry(lockFile, serverId)
    /\ hist' = [hist EXCEPT !.added = @ \ {serverId}]
    /\ last' = Outcome("removeLockEntry", "", NoServer, serverId, "ok", "", "", FALSE,
                       lockFile, EmptyObj, FALSE, "")
    /\ UNCHANGED <<cmd, procs, cfg, scope, active, now>>

DoGetLockEntry(serverId) ==
    /\ last' = Outcome("getLockEntry", "", NoServer, serverId, "ok", "", "", FALSE,
                       lockFile, getLockEntry(lockFile, serverId), FALSE, "")
    /\ UNCHANGED <<cmd, procs, hist, cfg, scope, active, lockFile, now>>

DoListLockEntries ==
    /\ last' = Outcome("listLockEntries", "", NoServer, <<>>, "ok", "", "", FALSE,
                       lockFile, listLockEntries(lockFile), FALSE, "")
    /\ UNCHANGED <<cmd, procs, hist, cfg, scope, active, lockFile, now>>

DoUpdateLockEntryTargets(serverId, targets) ==
    /\ lockFile' = updateLockEntryTargets(lockFile, serverId, targets, now)
    /\ last' = Outcome("updateLockEntryTargets", "", NoServer, serverId, "ok", "", "",
                       FALSE, lockFile, [targets |-> targets, time |-> now], FALSE, "")
    /\ UNCHANGED <<cmd, procs, hist, cfg, scope, active, now>>

NextLock ==
    \/ Tick
    \/ \E serverId \in LockIds, call \in AddCalls : DoAddLockEntry(serverId, call)
    \/ \E serverId \in LockIds : DoRemoveLockEntry(serverId)
    \/ \E serverId \in LockIds : DoGetLockEntry(serverId)
    \/ DoListLockEntries
    \/ \E serverId \in LockIds, targets \in UpdateTargets :
          DoUpdateLockEntryTargets(serverId, targets)

SpecLock == InitLock /\ [][NextLock]_vars

----------------------------------------------------------------------------
(* Server manifests: src/src/manifests/server-json.ts *)

\* a JSON value of a manifest: what typeof distinguishes, and the value
Str(s) == [t |-> "string", s |-> s]
Num(n) == [t |-> "number", n |-> n]
Arr(xs) == [t |-> "array", items |-> xs]
Obj(o) == [t |-> "object", props |-> o]
JsonNull == [t |-> "null"]
Undefined == [t |-> "undefined"]

\* typeof x
typeOf(x) == IF x.t \in {"array", "null"} THEN "object" ELSE x.t

\* m[f]
Field(m, f) == IF m.t = "object" /\ f \in DOMAIN m.props THEN m.props[f] ELSE Undefined

\* typeof x === 'string' && x.length > 0; names are sequences of characters
NonEmptyString(x, empty) == typeOf(x) = "string" /\ x.s # empty

\* variant of validateServerJson: the url of an http / sse manifest is not tested
validateServerJson_NoUrlTest(manifest) ==
    IF typeOf(manifest) # "object" \/ manifest = JsonNull THEN FALSE
    ELSE IF ~NonEmptyString(Field(manifest, "name"), <<>>) THEN FALSE
    ELSE IF \/ typeOf(Field(manifest, "transport")) # "string"
            \/ Field(manifest, "transport").s \notin {"stdio", "http", "sse"}
         THEN FALSE
    ELSE IF Field(manifest, "transport").s = "stdio"
         THEN IF ~NonEmptyString(Field(manifest, "command"), "") THEN FALSE
              ELSE IF /\ Field(manifest, "args") # Undefined
                      /\ Field(manifest, "args").t # "array"
                   THEN FALSE
              ELSE TRUE
    ELSE TRUE

validateServerJson(manifest) ==
    IF typeOf(manifest) # "object" \/ manifest = JsonNull THEN FALSE
    ELSE IF ~NonEmptyString(Field(manifest, "name"), <<>>) THEN FALSE
    ELSE IF \/ typeOf(Field(manifest, "transport")) # "string"
            \/ Field(manifest, "transport").s \notin {"stdio", "http", "sse"}
         THEN FALSE
    ELSE IF Field(manifest, "transport").s = "stdio"
         THEN IF ~NonEmptyString(Field(manifest, "command"), "") THEN FALSE
              ELSE IF /\ Field(manifest, "args") # Undefined
                      /\ Field(manifest, "args").t # "array"
                   THEN FALSE
              ELSE TRUE
    ELSE IF ~NonEmptyString(Field(manifest, "url"), "") THEN FALSE
    ELSE TRUE

\* manifest.secrets?.map(s => ({ name, description, required: s.required ?? true })) ?? []
normalizedSecrets(secrets) ==
    IF secrets \in {Undefined, JsonNull} THEN <<>>
    ELSE [i \in DOMAIN secrets.items |->
            [name |-> secrets.items[i].name,
             required |-> IF Has(secrets.items[i], "required")
                          THEN secrets.items[i].required ELSE TRUE]]

\* the value a manifest property carries
Raw(x) ==
    CASE x.t = "string" -> x.s
      [] x.t = "number" -> x.n
      [] x.t = "array" -> x.items
      [] x.t = "object" -> x.props
      [] OTHER -> Null

\* f: manifest.f, a property that is undefined being one that is missing
Prop(manifest, f) == Opt(Field(manifest, f) # Undefined, f, Raw(Field(manifest, f)))

normalizeServerJson(manifest) ==
    LET kind == Field(manifest, "transport").s
        transport ==
            IF kind = "stdio"
            THEN Merge([type |-> "stdio",
                        args |-> IF Field(manifest, "args") \in {Undefined, JsonNull}
                                 THEN <<>> ELSE Raw(Field(manifest, "args"))],
                       Merge(Prop(manifest, "command"),
                             Merge(Prop(manifest, "env"), Prop(manifest, "cwd"))))
            ELSE Merge([type |-> kind],
                       Merge(Prop(manifest, "url"), Prop(manifest, "headers")))
    IN  NormalizedServer(Field(manifest, "name").s, transport,
                         normalizedSecrets(Field(manifest, "secrets")))

parseServerJson(jsonContent) ==
    LET parsed == parse(jsonContent) IN
    IF ~parsed.ok
    THEN [ok |-> FALSE, error |-> "Invalid JSON", server |-> NoServer]
    ELSE IF ~validateServerJson(parsed.value)
    THEN [ok |-> FALSE, error |-> "Invalid server.json manifest", server |-> NoServer]
    ELSE [ok |-> TRUE, error |-> "", server |-> normalizeServerJson(parsed.value)]

----------------------------------------------------------------------------
(* Manifest parsing as a step *)

\* one property of a manifest: left out, or one of the given values
OneOf(f, values) == {EmptyObj} \cup {[x \in {f} |-> v] : v \in values}

\* the manifests handed to the parser: objects over the tested properties, each
\* left out, empty, filled in, or of the wrong type; and values that are no object
ManifestValues ==
    { Obj(Merge(n, Merge(t, Merge(c, Merge(u, Merge(a, sec)))))) :
        n \in OneOf("name", {Str(<<>>), Str(<<"a">>), Num(7)}),
        t \in OneOf("transport", {Str("stdio"), Str("http"), Str("sse"), Str("ws"), Num(7)}),
        c \in OneOf("command", {Str(""), Str("node"), Num(7)}),
        u \in OneOf("url", {Str(""), Str("https://example.com/mcp"), Num(7)}),
        a \in OneOf("args", {Arr(<<"server.js">>), Str("server.js")}),
        sec \in OneOf("secrets", {Arr(<<[name |-> "TOKEN", required |-> FALSE]>>)}) }
    \cup {JsonNull, Num(7), Str("stdio"), Arr(<<>>)}

\* the texts handed to the parser: not JSON, or the text of a JSON value
ManifestTexts == {Corrupt} \cup {Text(v) : v \in ManifestValues}

ParseCommand(jsonContent, done, result) ==
    [kind |-> "parse", jsonContent |-> jsonContent, done |-> done, result |-> result]

InitManifest ==
    /\ scope = "project"
    /\ active = {}
    /\ cfg = OnlyFile("", Absent)
    /\ lockFile = Absent
    /\ now = 0
    /\ hist = [start |-> lockFile, added |-> {}]
    /\ last = NoOutcome(cfg)
    /\ \E jsonContent \in ManifestTexts :
          cmd = ParseCommand(jsonContent, FALSE, [ok |-> FALSE, error |-> "", server |-> NoServer])
    /\ procs = NoProcs

DoParseServerJson ==
    /\ cmd.kind = "parse"
    /\ ~cmd.done
    /\ cmd' = ParseCommand(cmd.jsonContent, TRUE, parseServerJson(cmd.jsonContent))
    /\ UNCHANGED <<procs, hist, cfg, scope, active, lockFile, now, last>>

NextManifest == DoParseServerJson

SpecManifest == InitManifest /\ [][NextManifest]_vars

----------------------------------------------------------------------------
(* Commands: runAdd (src/src/add.ts), runRemove (src/unnamed/part_000) and *)
(* runList (src/src/types.ts)                                              *)

adapterList == <<"claude-code", "claude-desktop", "codex", "opencode">>

\* options.agents.map(id => getAdapter(id)), the ids given in the order of adapterList
targetAgents(agents) == SelectSeq(adapterList, LAMBDA a : a \in agents)

\* `${transport.type}:${transport.type === 'stdio' ? transport.command : transport.url}`
sourceInfo(transport) ==
    [type |-> "local",
     url |-> <<transport.type, ":",
               IF transport.type = "stdio" THEN transport.command ELSE transport.url>>]

\* { id: name, displayName: name, transport, secrets: [] }
addedServer(name, transport) == HashedServer(name, transport, <<>>, <<>>)

\* a command: what it was called with, the iterations its loop was started with,
\* the iterations left, the lines it has printed, how many commands ran before it
\* and the command that ran just before
Command(kind, input, queue, reports, count, earlier) ==
    [kind |-> kind, input |-> input, targets |-> queue, queue |-> queue,
     reports |-> reports, count |-> count, earlier |-> earlier]

\* what stays known of a command once the next one runs
Summary(c) ==
    IF c.kind = "none" THEN NoCommand
    ELSE [kind |-> c.kind, input |-> c.input, reports |-> c.reports]

Count(c) == IF c.kind = "none" THEN 0 ELSE c.count

\* the process has returned from its command, or none has run yet
Returned(c) == IF c.kind = "none" THEN TRUE ELSE c.queue = <<>>

\* one line of a command's output
Report(agent, name, printed, error) ==
    [agent |-> agent, name |-> name, printed |-> printed, error |-> error]

\* variant of runAddAgent: an addServer that throws ends the loop
runAddAgent_StopsOnError(c, sc, fs, lock, time) ==
    LET agent == Head(c.queue).agent
        name == c.input.name
        server == addedServer(name, c.input.transport)
        r == addServer(agent, sc, fs, server)
    IN  IF sc \notin supportedScopes(agent)
        THEN [cmd |-> [c EXCEPT !.queue = Tail(@),
                                !.reports = Append(@, Report(agent, name, "Skipping", ""))],
              files |-> fs, lock |-> lock, locked |-> FALSE]
        ELSE IF r.result = "error"
        THEN [cmd |-> [c EXCEPT !.queue = <<>>,
                                !.reports = Append(@, Report(agent, name, "failed", r.error))],
              files |-> fs, lock |-> lock, locked |-> FALSE]
        ELSE [cmd |-> [c EXCEPT !.queue = Tail(@),
                                !.reports = Append(@, Report(agent, name, "installed", ""))],
              files |-> r.files,
              lock |-> addLockEntry(lock, name, sourceInfo(c.input.transport), server,
                           <<[agent |-> agent, scope |-> sc, installedName |-> name]>>, time),
              locked |-> TRUE]

\* one iteration of runAdd's loop over the target agents
runAddAgent(c, sc, fs, lock, time) ==
    LET agent == Head(c.queue).agent
        name == c.input.name
        server == addedServer(name, c.input.transport)
        r == addServer(agent, sc, fs, server)
    IN  IF sc \notin supportedScopes(agent)
        THEN [cmd |-> [c EXCEPT !.queue = Tail(@),
                                !.reports = Append(@, Report(agent, name, "Skipping", ""))],
              files |-> fs, lock |-> lock, locked |-> FALSE]
        ELSE [cmd |-> [c EXCEPT !.queue = Tail(@),
                                !.reports = Append(@,
                                    Report(agent, name,
                                           IF r.result = "error" THEN "failed" ELSE "installed",
                                           r.error))],
              files |-> r.files,
              lock |-> addLockEntry(lock, name, sourceInfo(c.input.transport), server,
                           <<[agent |-> agent, scope |-> sc, installedName |-> name]>>, time),
              locked |-> TRUE]

\* the names agent.listInstalled returns; none when the scope is not supported or
\* the listing throws
allInstalled(agent, sc, fs) ==
    IF sc \notin supportedScopes(agent) THEN {}
    ELSE LET l == listInstalled(agent, sc, fs) IN
         IF l.ok THEN {e.name : e \in l.list} ELSE {}

\* allInstalled.filter(({ server }) => server.name === name), for each name in turn
RECURSIVE serversToRemove(_, _, _, _)
serversToRemove(serverNames, agents, sc, fs) ==
    IF serverNames = <<>> THEN <<>>
    ELSE LET name == Head(serverNames)
             matches == SelectSeq(agents, LAMBDA a : name \in allInstalled(a, sc, fs))
         IN  [i \in 1..Len(matches) |-> [agent |-> matches[i], name |-> name]]
             \o serversToRemove(Tail(serverNames), agents, sc, fs)

\* the 'Server not found' line of each name that matches nothing
RECURSIVE notFound(_, _, _, _)
notFound(serverNames, agents, sc, fs) ==
    IF serverNames = <<>> THEN <<>>
    ELSE (IF \E i \in DOMAIN agents : Head(serverNames) \in allInstalled(agents[i], sc, fs)
          THEN <<>>
          ELSE <<Report("", Head(serverNames), "Server not found", "")>>)
         \o notFound(Tail(serverNames), agents, sc, fs)

\* the Map from agent to names, flattened: agents in the order they were first
\* set, the names of each in the order they were pushed
RECURSIVE byAgent(_)
byAgent(toRemove) ==
    IF toRemove = <<>> THEN <<>>
    ELSE SelectSeq(toRemove, LAMBDA e : e.agent = Head(toRemove).agent)
         \o byAgent(SelectSeq(toRemove, LAMBDA e : e.agent # Head(toRemove).agent))

\* one iteration of runRemove's loops over the agents and their names
runRemoveServer(c, sc, fs, lock) ==
    LET item == Head(c.queue)
        r == removeServer(item.agent, sc, fs, item.name)
    IN  IF r.result = "ok"
        THEN [cmd |-> [c EXCEPT !.queue = Tail(@),
                                !.reports = Append(@, Report(item.agent, item.name, "Removed", ""))],
              files |-> r.files, lock |-> removeLockEntry(lock, item.name), locked |-> TRUE]
        ELSE [cmd |-> [c EXCEPT !.queue = Tail(@),
                                !.reports = Append(@, Report(item.agent, item.name,
                                                             "Failed to remove", r.error))],
              files |-> fs, lock |-> lock, locked |-> FALSE]

\* the blocks runList prints, one for each agent whose listing did not throw
RECURSIVE runListFrom(_, _, _, _)
runListFrom(agents, sc, fs, isInstalled) ==
    IF agents = <<>> THEN <<>>
    ELSE LET agent == Head(agents)
             rest == runListFrom(Tail(agents), sc, fs, isInstalled)
         IN  IF sc \notin supportedScopes(agent) THEN rest
             ELSE LET l == listInstalled(agent, sc, fs) IN
                  IF ~l.ok THEN rest
                  ELSE <<[agent |-> agent, name |-> {e.name : e \in l.list},
                          printed |-> IF isInstalled THEN "listed" ELSE "blank",
                          error |-> "", path |-> getConfigPath(agent, sc, fs).path]>> \o rest

----------------------------------------------------------------------------
(* Commands as steps *)

\* the --agent options the commands are run with
TargetSets == { {"claude-code", "codex"}, {"claude-desktop", "codex", "opencode"} }

\* the disks the commands start on: the config file of a target agent is missing
\* or is no valid JSON / TOML
CmdCfgs(agents, sc) ==
    LET targets == {getConfigPath(a, sc, OnlyFile("", Absent)).path :
                       a \in {b \in agents : sc \in supportedScopes(b)}}
    IN  {fs \in [Paths -> {Absent, Corrupt}] : \A p \in Paths : fs[p] = Corrupt => p \in targets}

\* the names and transports runAdd is called with
AddNames == { <<"a">>, <<"o", "/", "a">> }
AddTransports == { StdioTransport(<<>>, FALSE, FALSE), RemoteTransport("http", FALSE, EmptyObj) }

\* the server names runRemove is called with
RemoveNames == { << <<"a">> >>, << <<"o", "/", "a">> >>, << <<"b">>, <<"a">> >> }

InitCmd ==
    /\ scope \in Scopes
    /\ active \in TargetSets
    /\ cfg \in CmdCfgs(active, scope)
    /\ lockFile = Absent
    /\ now = 0
    /\ hist = [start |-> lockFile, added |-> {}]
    /\ last = NoOutcome(cfg)
    /\ cmd = NoCommand
    /\ procs = NoProcs

StartAdd(name, transport) ==
    /\ Returned(cmd)
    /\ Count(cmd) < MaxCommands
    /\ cmd' = Command("add", [name |-> name, transport |-> transport],
                      [i \in DOMAIN targetAgents(active) |->
                          [agent |-> targetAgents(active)[i], name |-> name]],
                      <<>>, Count(cmd) + 1, Summary(cmd))
    /\ UNCHANGED <<procs, hist, cfg, scope, active, lockFile, now, last>>

AddStep ==
    /\ cmd.kind = "add"
    /\ ~Returned(cmd)
    /\ \E r \in {runAddAgent(cmd, scope, cfg, lockFile, now)} :
          /\ cmd' = r.cmd
          /\ cfg' = r.files
          /\ lockFile' = r.lock
          /\ hist' = IF r.locked THEN [hist EXCEPT !.added = @ \cup {cmd.input.name}]
                     ELSE hist
    /\ UNCHANGED <<procs, scope, active, now, last>>

StartRemove(serverNames) ==
    /\ Returned(cmd)
    /\ Count(cmd) < MaxCommands
    /\ cmd' = Command("remove", serverNames,
                      byAgent(serversToRemove(serverNames, targetAgents(active), scope, cfg)),
                      notFound(serverNames, targetAgents(active), scope, cfg),
                      Count(cmd) + 1, Summary(cmd))
    /\ UNCHANGED <<procs, hist, cfg, scope, active, lockFile, now, last>>

RemoveStep ==
    /\ cmd.kind = "remove"
    /\ ~Returned(cmd)
    /\ \E r \in {runRemoveServer(cmd, scope, cfg, lockFile)} :
          /\ cmd' = r.cmd
          /\ cfg' = r.files
          /\ lockFile' = r.lock
          /\ hist' = IF r.locked THEN [hist EXCEPT !.added = @ \ {Head(cmd.queue).name}]
                     ELSE hist
    /\ UNCHANGED <<procs, scope, active, now, last>>

DoRunList(isInstalled) ==
    /\ Returned(cmd)
    /\ Count(cmd) < MaxCommands
    /\ cmd' = Command("list", isInstalled, <<>>,
                      runListFrom(targetAgents(active), scope, cfg, isInstalled),
                      Count(cmd) + 1, Summary(cmd))
    /\ UNCHANGED <<procs, hist, cfg, scope, active, lockFile, now, last>>

\* another program leaves the config file of an agent the loop has yet to handle
\* with content that does not parse
ExternalEdit(agent) ==
    /\ cmd.kind \in {"add", "remove"}
    /\ ~Returned(cmd)
    /\ \E i \in DOMAIN cmd.queue : cmd.queue[i].agent = agent
    /\ scope \in supportedScopes(agent)
    /\ cfg[getConfigPath(agent, scope, cfg).path] # Corrupt
    /\ cfg' = [cfg EXCEPT ![getConfigPath(agent, scope, cfg).path] = Corrupt]
    /\ UNCHANGED <<cmd, procs, hist, scope, active, lockFile, now, last>>

NextCmd ==
    \/ \E agent \in active : ExternalEdit(agent)
    \/ \E name \in AddNames, transport \in AddTransports : StartAdd(name, transport)
    \/ AddStep
    \/ \E serverNames \in RemoveNames : StartRemove(serverNames)
    \/ RemoveStep
    \/ \E isInstalled \in BOOLEAN : DoRunList(isInstalled)

SpecCmd == InitCmd /\ [][NextCmd]_vars

----------------------------------------------------------------------------
(* Processes: read-modify-write operations whose read and write are separate *)
(* steps (readFileSync ... writeFileSync; await readConfig ... await         *)
(* writeConfig)                                                              *)

ProcIds == {1, 2}

\* an operation a process runs: on the Claude Code config file or on the lock file
Op(kind, id) == [kind |-> kind, id |-> id]

OnConfig(op) == op.kind \in {"addServer", "removeServer"}

\* the server and the lock arguments the operations are called with
OpServer(op) == addedServer(op.id, StdioTransport(<<>>, FALSE, FALSE))
OpSource == [type |-> "local", url |-> "stdio:node"]
OpTargets == <<TargetClaude>>

\* variant of canStart: the next operation starts while one is still in flight
canStart_NoAwait(proc) == TRUE

\* the caller awaits an operation before it starts the next (await agent.addServer,
\* await agent.removeServer; the lock functions are synchronous)
canStart(proc) == proc.inflight = <<>>

\* the first half of an operation: what it reads
beginOp(op, sc, fs, lock) ==
    IF OnConfig(op)
    THEN readConfig("claude-code", sc, fs)
    ELSE [ok |-> TRUE, error |-> "", lock |-> readLockFile(lock)]

\* the second half of an operation: what it writes, from what was read
writeOp(op, read, sc, fs, lock, time) ==
    CASE op.kind = "addServer" ->
            LET r == addServerFrom("claude-code", sc, fs, OpServer(op), read)
            IN  [files |-> r.files, lock |-> lock, error |-> r.error]
      [] op.kind = "removeServer" ->
            LET r == removeServerFrom("claude-code", sc, fs, serverName(op.id), read)
            IN  [files |-> r.files, lock |-> lock, error |-> r.error]
      [] op.kind = "addLockEntry" ->
            [files |-> fs, error |-> "",
             lock |-> addLockEntryFrom(read.lock, op.id, OpSource, OpServer(op),
                                       OpTargets, time)]
      [] op.kind = "removeLockEntry" ->
            [files |-> fs, error |-> "", lock |-> removeLockEntryFrom(read.lock, op.id)]
      [] op.kind = "updateLockEntryTargets" ->
            [files |-> fs, error |-> "",
             lock |-> updateLockEntryTargetsFrom(lock, read.lock, op.id, OpTargets, time)]

\* variant of finishOp: the file is read again just before the write
finishOp_Rereads(op, read, sc, fs, lock, time) ==
    writeOp(op, beginOp(op, sc, fs, lock), sc, fs, lock, time)

\* the write uses what the operation read when it began; nothing locks the file or
\* compares it with what was read
finishOp(op, read, sc, fs, lock, time) == writeOp(op, read, sc, fs, lock, time)

\* an operation between its read and its write; overlap: the processes that wrote
\* the same file since the read
InFlight(op, read) == [op |-> op, read |-> read, overlap |-> {}]

\* an operation that has ended
Ended(op, error, overlap) == [op |-> op, error |-> error, overlap |-> overlap]

\* process p wrote a file: every operation in flight on that file overlaps with p
Overlapped(ps, p, onConfig) ==
    [q \in ProcIds |->
        [ps[q] EXCEPT !.inflight =
            [i \in DOMAIN ps[q].inflight |->
                IF OnConfig(ps[q].inflight[i].op) = onConfig
                THEN [ps[q].inflight[i] EXCEPT !.overlap = @ \cup {p}]
                ELSE ps[q].inflight[i]]]]

\* the operations a process is started with
FirstOps ==
    { <<Op("addServer", <<"a">>)>>,
      <<Op("addServer", <<"a">>), Op("addServer", <<"o", "/", "b">>)>>,
      <<Op("addServer", <<"a">>), Op("removeServer", <<"a">>)>>,
      <<Op("addLockEntry", <<"o", "/", "a">>)>>,
      <<Op("addLockEntry", <<"o", "/", "a">>), Op("addLockEntry", <<"a">>)>>,
      <<Op("addLockEntry", <<"o", "/", "a">>), Op("removeLockEntry", <<"a">>)>>,
      <<Op("addLockEntry", <<"o", "/", "a">>), Op("updateLockEntryTargets", <<"o", "/", "a">>)>>,
      <<Op("addServer", <<"a">>), Op("addLockEntry", <<"a">>)>> }

SecondOps ==
    { <<>>,
      <<Op("addServer", <<"o", "/", "b">>)>>,
      <<Op("removeServer", <<"a">>)>>,
      <<Op("addLockEntry", <<"a">>)>> }

InitProc ==
    /\ scope = "project"
    /\ active = {"claude-code"}
    /\ cfg \in {OnlyFile(CC_PROJECT, f) : f \in InitFiles("claude-code")}
    /\ lockFile \in {Absent, Text([version |-> CURRENT_LOCK_VERSION, servers |-> EarlierServers])}
    /\ now = 0
    /\ hist = [start |-> lockFile, added |-> {}]
    /\ last = NoOutcome(cfg)
    /\ cmd = NoCommand
    /\ \E first \in FirstOps, second \in SecondOps :
          procs = [p \in ProcIds |->
                      [pending |-> IF p = 1 THEN first ELSE second,
                       inflight |-> <<>>, log |-> <<>>]]

\* a process starts its next operation: the operation reads its file
Begin(p) ==
    /\ procs[p].pending # <<>>
    /\ canStart(procs[p])
    /\ \E r \in {beginOp(Head(procs[p].pending), scope, cfg, lockFile)} :
          procs' = [procs EXCEPT
                       ![p].pending = Tail(@),
                       ![p].inflight = IF r.ok
                                       THEN Append(@, InFlight(Head(procs[p].pending), r))
                                       ELSE @,
                       ![p].log = IF r.ok THEN @
                                  ELSE Append(@, Ended(Head(procs[p].pending), r.error, {}))]
    /\ UNCHANGED <<cmd, hist, cfg, scope, active, lockFile, now, last>>

\* the operation a process started first goes on: it writes its file and ends
Finish(p) ==
    /\ procs[p].inflight # <<>>
    /\ \E e \in {Head(procs[p].inflight)} :
       \E w \in {finishOp(e.op, e.read, scope, cfg, lockFile, now)} :
          /\ cfg' = w.files
          /\ lockFile' = w.lock
          /\ procs' = LET ended == [procs EXCEPT
                                        ![p].inflight = Tail(@),
                                        ![p].log = Append(@, Ended(e.op, w.error, e.overlap))]
                       IN  IF w.files # cfg \/ w.lock # lockFile
                           THEN Overlapped(ended, p, OnConfig(e.op))
                           ELSE ended
    /\ UNCHANGED <<cmd, hist, scope, active, now, last>>

NextProc ==
    \/ \E p \in ProcIds : Begin(p)
    \/ \E p \in ProcIds : Finish(p)

SpecProc == InitProc /\ [][NextProc]_vars

----------------------------------------------------------------------------
(* Properties of the agent adapters *)

ScopedOps ==
    {"getConfigPath", "readConfig", "writeConfig", "listInstalled", "addServer",
     "removeServer"}

\* the server-map a file holds, as the adapter reads it
MapIn(a, file) == IF file.kind = "doc" THEN serverMapOf(a, file.doc) ELSE EmptyObj

\* the last operation ran on a supported scope whose file was absent or parseable
Readable ==
    /\ getConfigPath(last.agent, scope, last.pre).ok
    /\ last.pre[getConfigPath(last.agent, scope, last.pre).path].kind # "corrupt"

\* the config file of the last operation, before and after it
FileBefore == last.pre[getConfigPath(last.agent, scope, last.pre).path]
FileAfter == cfg[getConfigPath(last.agent, scope, last.pre).path]

\* the text after the final '/' of an id, the whole id when it has no '/'
TextAfterFinalSlash(id) ==
    IF \E i \in 1..Len(id) : id[i] = "/"
    THEN LET i == CHOOSE j \in 1..Len(id) :
                     id[j] = "/" /\ \A k \in (j + 1)..Len(id) : id[k] # "/"
         IN  [k \in 1..(Len(id) - i) |-> id[i + k]]
    ELSE id

\* the installed name: the text after the final '/', the whole id when that is empty
InstalledName(id) ==
    IF TextAfterFinalSlash(id) = <<>> THEN id ELSE TextAfterFinalSlash(id)

\* field f is missing in both transports or present in both with equal values
SameField(t1, t2, f) == (Has(t1, f) <=> Has(t2, f)) /\ (Has(t1, f) => t1[f] = t2[f])

\* C1: addServer, removeServer and writeConfig on an existing parseable config
\* file leave every top-level key other than the adapter's server-map key with
\* the value it had, and for OpenCode every key inside mcp other than servers.
C1_MergePreservation ==
    last.op \in {"addServer", "removeServer", "writeConfig"} =>
        \A p \in Paths :
            last.pre[p].kind = "doc" =>
                /\ cfg[p].kind = "doc"
                /\ \A k \in (DOMAIN last.pre[p].doc) \ {serverMapKey(last.agent)} :
                      Has(cfg[p].doc, k) /\ cfg[p].doc[k] = last.pre[p].doc[k]
                /\ (last.agent = "opencode" /\ Has(last.pre[p].doc, "mcp")) =>
                      /\ Has(cfg[p].doc, "mcp")
                      /\ \A k \in (DOMAIN last.pre[p].doc.mcp) \ {"servers"} :
                            /\ Has(cfg[p].doc.mcp, k)
                            /\ cfg[p].doc.mcp[k] = last.pre[p].doc.mcp[k]

\* an OpenCode file with another top-level key and another key inside mcp was rewritten
C1_Witness ==
    /\ last.op = "addServer" /\ last.result = "ok" /\ last.agent = "opencode"
    /\ FileBefore.kind = "doc"
    /\ Has(FileBefore.doc, "otherSetting") /\ Has(FileBefore.doc.mcp, "timeout")
    /\ FileAfter # FileBefore

\* C2: addServer(s) changes at most the entry under the installed name of s and
\* removeServer(k) at most the entry under k: every other entry of the
\* server-map is present with the same value afterwards.
C2_OtherEntriesKept ==
    last.op \in {"addServer", "removeServer"} =>
        \A p \in Paths :
            \A k \in (DOMAIN MapIn(last.agent, last.pre[p])) \ {last.key} :
                /\ Has(MapIn(last.agent, cfg[p]), k)
                /\ MapIn(last.agent, cfg[p])[k] = MapIn(last.agent, last.pre[p])[k]

\* a server was added to a server-map that held an entry under another name
C2_Witness ==
    /\ last.op = "addServer" /\ last.result = "ok"
    /\ \E k \in DOMAIN MapIn(last.agent, FileBefore) : k # last.key
    /\ MapIn(last.agent, FileAfter) # MapIn(last.agent, FileBefore)

C5_ScopeRejection ==
    (last.agent = "claude-desktop" /\ scope = "project" /\ last.op \in ScopedOps) =>
        /\ last.result = "error"
        /\ last.error = UnsupportedScope
        /\ cfg = last.pre

\* the server-map held an entry under the installed name of the server added
Occupied ==
    /\ last.op = "addServer"
    /\ Readable
    /\ Has(MapIn(last.agent, FileBefore), last.key)

\* C6 as stated: addServer(s) on a server-map that holds an entry under the
\* installed name of s raises no error and no warning, keeps the set of keys and
\* leaves the forward transform of s under that name.
C6_Overwrite_Stated ==
    Occupied =>
        /\ last.result = "ok"
        /\ ~last.warned
        /\ DOMAIN MapIn(last.agent, FileAfter) = DOMAIN MapIn(last.agent, FileBefore)
        /\ MapIn(last.agent, FileAfter)[last.key] = Forward(last.agent, last.server)

\* C6: the same for every server the adapter installs; Claude Desktop given an
\* http or sse server warns, skips it and leaves the entry as it was.
C6_Overwrite ==
    Occupied =>
        IF last.agent = "claude-desktop" /\ last.server.transport.type # "stdio"
        THEN last.result = "skipped" /\ last.warned /\ cfg = last.pre
        ELSE /\ last.result = "ok"
             /\ ~last.warned
             /\ DOMAIN MapIn(last.agent, FileAfter) = DOMAIN MapIn(last.agent, FileBefore)
             /\ MapIn(last.agent, FileAfter)[last.key] = Forward(last.agent, last.server)

\* an entry was replaced by a different one under the same name
C6_Witness ==
    /\ Occupied
    /\ last.result = "ok"
    /\ MapIn(last.agent, FileAfter)[last.key] # MapIn(last.agent, FileBefore)[last.key]

\* C7 as stated: the key addServer stores the server under is the text after the
\* final '/' of the id, the whole id when the id has no '/'.
C7_InstalledName_Stated ==
    (last.op = "addServer" /\ last.result = "ok") =>
        /\ DOMAIN MapIn(last.agent, FileAfter) =
              (DOMAIN MapIn(last.agent, FileBefore)) \cup {TextAfterFinalSlash(last.server.id)}
        /\ MapIn(last.agent, FileAfter)[TextAfterFinalSlash(last.server.id)] =
              Forward(last.agent, last.server)

\* C7: the key is the text after the final '/' of the id when that text is not
\* empty, and the whole id otherwise (no '/', or the id ends with '/').
C7_InstalledName ==
    (last.op = "addServer" /\ last.result = "ok") =>
        /\ DOMAIN MapIn(last.agent, FileAfter) =
              (DOMAIN MapIn(last.agent, FileBefore)) \cup {InstalledName(last.server.id)}
        /\ MapIn(last.agent, FileAfter)[InstalledName(last.server.id)] =
              Forward(last.agent, last.server)

\* a server whose id ends with '/' was stored
C7_Witness ==
    /\ last.op = "addServer" /\ last.result = "ok"
    /\ last.server.id[Len(last.server.id)] = "/"
    /\ Has(MapIn(last.agent, FileAfter), last.server.id)

\* C8: removeServer(k) for a key that is not in the server-map, the config file
\* missing included, raises no error and leaves the config file as it was.
C8_RemoveAbsentKey ==
    (last.op = "removeServer" /\ Readable /\ ~Has(MapIn(last.agent, FileBefore), last.key)) =>
        /\ last.result = "ok"
        /\ cfg = last.pre

\* C9 as stated, on the scopes the adapter supports: removeServer(k) twice in a
\* row raises no error, and the second call leaves the config file as the first
\* call left it.
C9_RemoveTwice_Stated ==
    (last.op = "removeServer" /\ last.follows
       /\ getConfigPath(last.agent, scope, last.pre).ok) =>
        /\ last.first = "ok"
        /\ last.result = "ok"
        /\ cfg = last.pre

\* C9: when the first removeServer(k) raises no error the second raises none,
\* when the first raises (unparseable file, unsupported scope) so does the
\* second; either way the second leaves the config file as the first left it.
C9_RemoveTwice ==
    (last.op = "removeServer" /\ last.follows) =>
        /\ last.result = last.first
        /\ last.first = "ok" <=> Readable
        /\ cfg = last.pre

\* removeServer succeeded twice in a row for the same key
C9_Witness ==
    /\ last.op = "removeServer" /\ last.follows
    /\ last.first = "ok" /\ last.result = "ok"
    /\ FileAfter.kind = "doc"

\* the last operation ran on a supported scope whose config file does not exist
Missing == getConfigPath(last.agent, scope, last.pre).ok /\ FileBefore.kind = "absent"

\* C10: readConfig on a scope whose config file does not exist returns an empty
\* server-map without error and does not create the file; listInstalled returns
\* an empty sequence.
C10_MissingFile ==
    /\ (last.op = "readConfig" /\ Missing) =>
          last.result = "ok" /\ last.ret = EmptyObj /\ cfg = last.pre
    /\ (last.op = "listInstalled" /\ Missing) =>
          last.result = "ok" /\ last.ret = {} /\ cfg = last.pre

\* listInstalled ran on a missing config file
C10_Witness ==
    /\ last.op = "listInstalled" /\ Missing
    /\ last.result = "ok" /\ last.ret = {}

\* the last operation ran on a supported scope whose config file does not parse
Unparseable == getConfigPath(last.agent, scope, last.pre).ok /\ FileBefore.kind = "corrupt"

\* C11: readConfig and listInstalled on an existing config file that does not
\* parse in the adapter's format fail with the invalid-config error naming the
\* file's path, and leave the file unchanged.
C11_InvalidConfig ==
    (last.op \in {"readConfig", "listInstalled"} /\ Unparseable) =>
        /\ last.result = "error"
        /\ last.error = InvalidConfig
        /\ last.path = getConfigPath(last.agent, scope, last.pre).path
        /\ cfg = last.pre

\* listInstalled failed on OpenCode's opencode.jsonc, which does not parse
C11_Witness ==
    /\ last.op = "listInstalled" /\ Unparseable
    /\ last.result = "error"
    /\ last.path = OPENCODE_JSONC

\* C12: writeConfig(servers) on an existing config file that does not parse
\* raises no error and treats the file as absent: afterwards the file is a valid
\* document whose only content is the adapter's server-map, holding exactly the
\* servers passed.
C12_WriteOverBroken ==
    (last.op = "writeConfig" /\ Unparseable) =>
        /\ last.result = "ok"
        /\ FileAfter.kind = "doc"
        /\ DOMAIN FileAfter.doc = {serverMapKey(last.agent)}
        /\ last.agent = "opencode" => DOMAIN FileAfter.doc.mcp = {"servers"}
        /\ MapIn(last.agent, FileAfter) = last.ret
        /\ \A p \in Paths \ {getConfigPath(last.agent, scope, last.pre).path} :
              cfg[p] = last.pre[p]

\* a server-map with an entry was written over a file that did not parse
C12_Witness ==
    /\ last.op = "writeConfig" /\ Unparseable
    /\ last.result = "ok"
    /\ last.ret # EmptyObj
    /\ MapIn(last.agent, FileAfter) = last.ret

\* C13: addServer(s) on a scope whose existing config file does not parse
\* succeeds, and afterwards the file parses and its server-map holds s under its
\* installed name.
C13_InstallOnBroken ==
    (/\ last.op = "addServer" /\ Unparseable
     /\ ~(last.agent = "claude-desktop" /\ last.server.transport.type # "stdio")) =>
        /\ last.result = "ok"
        /\ FileAfter.kind = "doc"
        /\ Has(MapIn(last.agent, FileAfter), InstalledName(last.server.id))

\* C14: listInstalled on a parseable config file returns exactly one result per
\* key of the server-map, named by that key; an entry whose reverse transform
\* fails yields the placeholder stdio server with command 'unknown' and no args,
\* and every other entry is returned with its own transform.
C14_ListEveryEntry ==
    (last.op = "listInstalled" /\ Readable /\ FileBefore.kind = "doc") =>
        /\ last.result = "ok"
        /\ {r.name : r \in last.ret} = DOMAIN MapIn(last.agent, FileBefore)
        /\ Cardinality(last.ret) = Cardinality(DOMAIN MapIn(last.agent, FileBefore))
        /\ \A r \in last.ret :
              /\ r.server.id = r.name
              /\ IF MapIn(last.agent, FileBefore)[r.name] = Null
                 THEN r.server.transport =
                         [type |-> "stdio", command |-> "unknown", args |-> <<>>]
                 ELSE r.server =
                         Reverse(last.agent, r.name, MapIn(last.agent, FileBefore)[r.name])

\* a listing returned the placeholder for a null entry next to a converted entry
C14_Witness ==
    /\ last.op = "listInstalled" /\ last.result = "ok" /\ FileBefore.kind = "doc"
    /\ \E r1, r2 \in last.ret :
          /\ MapIn(last.agent, FileBefore)[r1.name] = Null
          /\ r1.server.transport.command = "unknown"
          /\ MapIn(last.agent, FileBefore)[r2.name] # Null
          /\ Has(r2.server.transport, "command")
          /\ r2.server.transport.command = "node"

\* C15: Claude Desktop addServer with user scope and an http or sse server
\* raises no error and leaves the Claude Desktop config file unchanged: not
\* created, not rewritten, no entry added.
C15_DesktopSkipsRemote ==
    (/\ last.op = "addServer" /\ last.agent = "claude-desktop" /\ scope = "user"
     /\ last.server.transport.type \in {"http", "sse"}) =>
        /\ last.result # "error"
        /\ last.error = ""
        /\ cfg = last.pre

\* Claude Desktop skipped an http server while its config file held a document
C15_Witness ==
    /\ last.op = "addServer" /\ last.agent = "claude-desktop" /\ scope = "user"
    /\ last.server.transport.type = "http"
    /\ last.result = "skipped" /\ last.warned
    /\ cfg[DESKTOP_CONFIG_PATH].kind = "doc"

\* the headers a remote server may carry: none, an empty map, another header,
\* and Authorization values 'Bearer t', 'Bearer u', 'Basic t', 'Basic u' and ''
HeaderVariants ==
    { [has |-> FALSE, headers |-> EmptyObj],
      [has |-> TRUE, headers |-> EmptyObj],
      [has |-> TRUE, headers |-> Put(EmptyObj, "X-Api-Key", <<"k">>)],
      [has |-> TRUE, headers |-> [Authorization |-> <<"Bearer ", "t">>]],
      [has |-> TRUE, headers |-> [Authorization |-> <<"Bearer ", "u">>]],
      [has |-> TRUE,
       headers |-> Put([Authorization |-> <<"Bearer ", "t">>], "X-Api-Key", <<"k">>)],
      [has |-> TRUE, headers |-> [Authorization |-> <<"Basic ", "t">>]],
      [has |-> TRUE, headers |-> [Authorization |-> <<"Basic ", "u">>]],
      [has |-> TRUE, headers |-> [Authorization |-> <<>>]] }

\* the server of the last operation, carrying the headers v instead of its own
WithHeaders(v) ==
    [last.server EXCEPT !.transport =
        Merge([type |-> last.server.transport.type, url |-> last.server.transport.url],
              Opt(v.has, "headers", v.headers))]

\* the entry Codex's addServer writes, in the file state the last operation
\* started from, for the last server carrying the headers v
CodexEntryFor(v) ==
    MapIn("codex",
          addServer("codex", scope, last.pre, WithHeaders(v)).files[
              getConfigPath("codex", scope, last.pre).path])[last.key]

\* whether an Authorization header is present, and whether it starts with 'Bearer '
AuthPresence(v) ==
    IF ~(v.has /\ Has(v.headers, "Authorization")) THEN "absent"
    ELSE IF StartsWith(v.headers.Authorization, "Bearer ") THEN "bearer"
    ELSE "other"

\* the same, an Authorization header with an empty value counting as absent
AuthKind(v) ==
    IF ~(v.has /\ Has(v.headers, "Authorization")) \/ v.headers.Authorization = <<>>
    THEN "absent"
    ELSE IF StartsWith(v.headers.Authorization, "Bearer ") THEN "bearer"
    ELSE "other"

\* Codex's addServer stored an http or sse server
CodexRemoteAdded ==
    /\ last.op = "addServer" /\ last.agent = "codex" /\ last.result = "ok"
    /\ last.server.transport.type \in {"http", "sse"}

\* the entry holds url and at most auth {type, token_env: 'MCP_TOKEN'}
NoHeaderValue(entry, url) ==
    /\ DOMAIN entry \subseteq {"url", "auth"}
    /\ Has(entry, "url") /\ entry.url = url
    /\ Has(entry, "auth") =>
          entry.auth \in {[type |-> "bearer", token_env |-> "MCP_TOKEN"],
                          [type |-> "custom", token_env |-> "MCP_TOKEN"]}

\* C16 as stated: the entry Codex's addServer writes for an http or sse server
\* depends on the headers only through whether an Authorization header is
\* present and whether its value starts with 'Bearer '; it holds url and at most
\* auth {type, token_env: 'MCP_TOKEN'}.
C16_HeadersNotWritten_Stated ==
    CodexRemoteAdded =>
        /\ \A v1, v2 \in HeaderVariants :
              AuthPresence(v1) = AuthPresence(v2) => CodexEntryFor(v1) = CodexEntryFor(v2)
        /\ \A v \in HeaderVariants :
              NoHeaderValue(CodexEntryFor(v), last.server.transport.url)
        /\ NoHeaderValue(MapIn("codex", FileAfter)[last.key], last.server.transport.url)

\* C16: the same, where an Authorization header whose value is the empty string
\* counts as no Authorization header.
C16_HeadersNotWritten ==
    CodexRemoteAdded =>
        /\ \A v1, v2 \in HeaderVariants :
              AuthKind(v1) = AuthKind(v2) => CodexEntryFor(v1) = CodexEntryFor(v2)
        /\ \A v \in HeaderVariants :
              NoHeaderValue(CodexEntryFor(v), last.server.transport.url)
        /\ NoHeaderValue(MapIn("codex", FileAfter)[last.key], last.server.transport.url)

\* Codex stored an http server that carries a Bearer token: the entry has
\* auth {type: 'bearer'} and no header
C16_Witness ==
    /\ CodexRemoteAdded
    /\ Has(last.server.transport, "headers")
    /\ last.server.transport.headers.Authorization = BearerValue
    /\ Has(MapIn("codex", FileAfter)[last.key], "auth")
    /\ MapIn("codex", FileAfter)[last.key].auth.type = "bearer"

----------------------------------------------------------------------------
(* Further properties of the agent adapters *)

\* the transport kind Codex and OpenCode list an http or sse entry with
ListedKind(a, type) ==
    IF a \in {"codex", "opencode"} /\ type = "sse" THEN "http" ELSE type

\* C29 as stated: the server listInstalled returns right after addServer(s) has
\* the transport kind of s.
C29_KindRoundTrip_Stated ==
    (last.op = "listInstalled" /\ last.follows) =>
        \E r \in last.ret :
            /\ r.name = InstalledName(last.server.id)
            /\ r.server.transport.type = last.server.transport.type

\* C29: the server listInstalled returns right after addServer(s) has the
\* transport kind of s, except that Codex and OpenCode list an sse server as http.
C29_KindRoundTrip ==
    (last.op = "listInstalled" /\ last.follows) =>
        \E r \in last.ret :
            /\ r.name = InstalledName(last.server.id)
            /\ r.server.transport.type = ListedKind(last.agent, last.server.transport.type)

\* Claude Code listed an sse server right after installing it
C29_Witness ==
    /\ last.op = "listInstalled" /\ last.follows /\ last.agent = "claude-code"
    /\ last.server.transport.type = "sse"
    /\ \E r \in last.ret : r.server.transport.type = "sse"

\* the file states that differ from the current one in one file
OtherDisks ==
    { [cfg EXCEPT ![p] = f] : p \in Paths, f \in {Absent, Corrupt, Text(EmptyObj)} }

\* C23 as stated: getConfigPath returns the same path, for the same scope and
\* working directory, whatever files exist on disk.
C23_PathPure_Stated ==
    last.op = "getConfigPath" =>
        \A fs \in OtherDisks :
            /\ getConfigPath(last.agent, scope, fs).ok = (last.result = "ok")
            /\ getConfigPath(last.agent, scope, fs).path = last.ret

\* C23: the same, except for OpenCode with project scope, whose path is
\* <cwd>/opencode.jsonc when that file exists and <cwd>/opencode.json otherwise.
C23_PathPure ==
    last.op = "getConfigPath" =>
        \A fs \in OtherDisks \cup {cfg} :
            /\ getConfigPath(last.agent, scope, fs).ok = (last.result = "ok")
            /\ getConfigPath(last.agent, scope, fs).path =
                  IF last.agent = "opencode" /\ scope = "project"
                  THEN IF existsSync(fs[OPENCODE_JSONC]) THEN OPENCODE_JSONC
                       ELSE OPENCODE_JSON
                  ELSE last.ret

\* OpenCode's getConfigPath returned opencode.jsonc while opencode.json existed too
C23_Witness ==
    /\ last.op = "getConfigPath" /\ last.agent = "opencode" /\ scope = "project"
    /\ last.ret = OPENCODE_JSONC
    /\ existsSync(cfg[OPENCODE_JSON])

----------------------------------------------------------------------------
(* Properties of the lock store *)

\* the entries of the lock file before and after the last operation
LockBefore == readLockFile(last.pre).servers
LockAfter == readLockFile(lockFile).servers

\* C4: addLockEntry for an id that has a lock entry keeps that entry's
\* installedAt, sets updatedAt to the time of the call, and sets source,
\* metadataHash and targets to exactly the call's arguments.
C4_LockUpsert ==
    (last.op = "addLockEntry" /\ Has(LockBefore, last.key)) =>
        /\ Has(LockAfter, last.key)
        /\ LockAfter[last.key].installedAt = LockBefore[last.key].installedAt
        /\ LockAfter[last.key].updatedAt = last.ret.time
        /\ LockAfter[last.key].source = last.ret.source
        /\ LockAfter[last.key].metadataHash = generateMetadataHash(last.server)
        /\ LockAfter[last.key].targets = last.ret.targets

\* an entry was overwritten, later than its insertion, by a call with other targets
C4_Witness ==
    /\ last.op = "addLockEntry" /\ Has(LockBefore, last.key)
    /\ LockBefore[last.key].installedAt < last.ret.time
    /\ LockBefore[last.key].targets # last.ret.targets
    /\ LockBefore[last.key].source # last.ret.source

LockOps ==
    {"addLockEntry", "removeLockEntry", "getLockEntry", "listLockEntries",
     "updateLockEntryTargets"}

\* the lock file is absent, is not valid JSON, or lacks a version or a servers map
Unusable(file) ==
    file.kind # "doc" \/ ~Has(file.doc, "version") \/ ~Has(file.doc, "servers")

\* the lock file has a version and a servers map, and the version is not the current one
VersionMismatch(file) ==
    /\ file.kind = "doc" /\ Has(file.doc, "version") /\ Has(file.doc, "servers")
    /\ file.doc.version # CURRENT_LOCK_VERSION

\* the last lock-store operation did what it does on the empty lock file
\* {version: 1, servers: {}}
AsOnEmptyLock ==
    CASE last.op = "getLockEntry" -> ~last.ret.found
      [] last.op = "listLockEntries" -> last.ret = {}
      [] last.op = "addLockEntry" ->
            /\ lockFile.kind = "doc"
            /\ lockFile.doc.version = CURRENT_LOCK_VERSION
            /\ DOMAIN lockFile.doc.servers = {last.key}
            /\ lockFile.doc.servers[last.key].installedAt = last.ret.time
            /\ lockFile.doc.servers[last.key].targets = last.ret.targets
      [] last.op = "removeLockEntry" ->
            lockFile = Text([version |-> CURRENT_LOCK_VERSION, servers |-> EmptyObj])
      [] last.op = "updateLockEntryTargets" -> lockFile = last.pre

\* the last lock-store operation worked on the servers the file held, read as
\* version 1 when the file's version was lower and with the file's version otherwise
AsOnKeptServers ==
    LET old == last.pre.doc.servers
        version == IF last.pre.doc.version < CURRENT_LOCK_VERSION
                   THEN CURRENT_LOCK_VERSION ELSE last.pre.doc.version
    IN
    CASE last.op = "getLockEntry" ->
            /\ last.ret.found <=> Has(old, last.key)
            /\ last.ret.found => last.ret.entry = old[last.key]
      [] last.op = "listLockEntries" -> last.ret = {old[id] : id \in DOMAIN old}
      [] last.op = "addLockEntry" ->
            /\ lockFile.kind = "doc"
            /\ lockFile.doc.version = version
            /\ DOMAIN lockFile.doc.servers = (DOMAIN old) \cup {last.key}
            /\ \A id \in (DOMAIN old) \ {last.key} : lockFile.doc.servers[id] = old[id]
            /\ Has(old, last.key) =>
                  lockFile.doc.servers[last.key].installedAt = old[last.key].installedAt
      [] last.op = "removeLockEntry" ->
            lockFile = Text([version |-> version, servers |-> Rest(old, last.key)])
      [] last.op = "updateLockEntryTargets" ->
            IF Has(old, last.key)
            THEN /\ lockFile.kind = "doc"
                 /\ lockFile.doc.version = version
                 /\ DOMAIN lockFile.doc.servers = DOMAIN old
                 /\ lockFile.doc.servers[last.key].targets = last.ret.targets
            ELSE lockFile = last.pre

\* C17 as stated: when the lock file is absent, is not valid JSON, lacks a
\* numeric version or a servers map, or carries a version other than 1, every
\* lock-store operation behaves as on the empty lock file.
C17_LockReadDegrades_Stated ==
    (last.op \in LockOps /\ (Unusable(last.pre) \/ VersionMismatch(last.pre))) =>
        AsOnEmptyLock

\* C17: when the lock file is absent, is not valid JSON, or lacks a numeric
\* version or a servers map, every lock-store operation behaves as on the empty
\* lock file; when it carries a version other than 1 its servers are kept, read
\* as version 1 for a lower version and as they are for a higher one.
C17_LockReadDegrades ==
    /\ (last.op \in LockOps /\ Unusable(last.pre)) => AsOnEmptyLock
    /\ (last.op \in LockOps /\ VersionMismatch(last.pre)) => AsOnKeptServers

\* an entry was added to a lock file that held servers but no version: the
\* servers it held are gone
C17_Witness ==
    /\ last.op = "addLockEntry"
    /\ last.pre.kind = "doc" /\ ~Has(last.pre.doc, "version")
    /\ last.pre.doc.servers # EmptyObj
    /\ DOMAIN lockFile.doc.servers = {last.key}

\* C18: updateLockEntryTargets(id, targets) on an existing entry changes only
\* that entry's targets and updatedAt; its serverId, source, version,
\* metadataHash and installedAt, and every other entry, are unchanged.  When no
\* entry for id exists the call does not write or create the lock file.
C18_UpdateTargetsOnly ==
    last.op = "updateLockEntryTargets" =>
        IF Has(LockBefore, last.key)
        THEN /\ DOMAIN LockAfter = DOMAIN LockBefore
             /\ DOMAIN LockAfter[last.key] = DOMAIN LockBefore[last.key]
             /\ \A f \in (DOMAIN LockBefore[last.key]) \ {"targets", "updatedAt"} :
                   LockAfter[last.key][f] = LockBefore[last.key][f]
             /\ LockAfter[last.key].targets = last.ret.targets
             /\ LockAfter[last.key].updatedAt = last.ret.time
             /\ \A id \in (DOMAIN LockBefore) \ {last.key} :
                   LockAfter[id] = LockBefore[id]
        ELSE lockFile = last.pre

\* the targets of a registry entry, which has a version, were replaced later than
\* its last update while the lock file held another entry
C18_Witness ==
    /\ last.op = "updateLockEntryTargets" /\ Has(LockBefore, last.key)
    /\ Has(LockBefore[last.key], "version")
    /\ LockBefore[last.key].targets # last.ret.targets
    /\ LockBefore[last.key].updatedAt < last.ret.time
    /\ DOMAIN LockBefore # {last.key}

\* the secret fields with the names of the given secrets: any required flag, with
\* or without a description
SecretFieldsOf(secrets) ==
    { Merge([name |-> secrets[i].name, required |-> r], Opt(d, "description", "about")) :
          i \in 1..Len(secrets), r \in BOOLEAN, d \in BOOLEAN }

\* the orders in which the properties of env may have been inserted
EnvOrders(transport) ==
    IF Has(transport, "env")
    THEN { o \in [1..Cardinality(DOMAIN transport.env) -> DOMAIN transport.env] :
             {o[i] : i \in 1..Cardinality(DOMAIN transport.env)} = DOMAIN transport.env }
    ELSE { <<>> }

\* the servers with the id, the transport and the set of secret names of server:
\* any displayName, with or without a description, the secrets in any order, the
\* properties of env inserted in any order
SameMetadata(server) ==
    { Merge([id |-> server.id, displayName |-> n, transport |-> server.transport,
             secrets |-> q, envOrder |-> o],
            Opt(d, "description", "about")) :
          n \in {server.id, <<"n">>},
          d \in BOOLEAN,
          o \in EnvOrders(server.transport),
          q \in { q \in [1..Len(server.secrets) -> SecretFieldsOf(server.secrets)] :
                    {q[i].name : i \in 1..Len(server.secrets)} =
                        {server.secrets[i].name : i \in 1..Len(server.secrets)} } }

\* C19: generateMetadataHash depends on the server's id, transport and set of
\* secret names only: every server with the same id, the same transport (the
\* same properties with the same values) and the same set of secret names gets
\* the hash stored for the server of the call, whatever its displayName,
\* description, the order of its secrets and their description and required flags.
C19_HashStable ==
    last.op = "addLockEntry" =>
        \A v \in SameMetadata(last.server) :
            generateMetadataHash(v) = LockAfter[last.key].metadataHash

\* the process started with an empty lock file: none, or {version: 1, servers: {}}
StartedEmpty == hist.start \in {Absent, Text(DefaultLock)}

\* C20: starting from an empty lock file, after any sequence of addLockEntry,
\* removeLockEntry and updateLockEntryTargets calls, getLockEntry(id) returns an
\* entry exactly when the most recent addLockEntry or removeLockEntry call for
\* id was addLockEntry, that entry has serverId equal to id, and
\* listLockEntries returns exactly one entry per such id.
C20_LockMap ==
    StartedEmpty =>
        /\ \A id \in LockIds :
              /\ getLockEntry(lockFile, id).found <=> id \in hist.added
              /\ getLockEntry(lockFile, id).found =>
                    getLockEntry(lockFile, id).entry.serverId = id
        /\ {e.serverId : e \in listLockEntries(lockFile)} = hist.added
        /\ Cardinality(listLockEntries(lockFile)) = Cardinality(hist.added)
        /\ last.op = "getLockEntry" => (last.ret.found <=> last.key \in hist.added)
        /\ last.op = "listLockEntries" => {e.serverId : e \in last.ret} = hist.added

\* listLockEntries returned the one entry the lock file holds, for the one id
\* whose latest call was addLockEntry, updated later than it was inserted
C20_Witness ==
    /\ StartedEmpty
    /\ last.op = "listLockEntries"
    /\ Cardinality(last.ret) = 1
    /\ Cardinality(hist.added) = 1
    /\ lockFile.kind = "doc"
    /\ \E e \in last.ret : e.updatedAt > e.installedAt

----------------------------------------------------------------------------
(* Properties of the manifest parser *)

\* the manifest of the text that was parsed; a text that is no JSON has none
ParsedManifest == IF cmd.jsonContent.kind = "doc" THEN cmd.jsonContent.doc ELSE Undefined

\* the property is missing or is the empty string
MissingOrEmpty(m, f, empty) == Field(m, f) = Undefined \/ Field(m, f) = Str(empty)

\* the manifest's transport is the given string
TransportIs(m, kinds) == Field(m, "transport").t = "string" /\ Field(m, "transport").s \in kinds

\* one of the listed reasons to reject the text applies
Rejectable ==
    \/ cmd.jsonContent.kind # "doc"
    \/ MissingOrEmpty(ParsedManifest, "name", <<>>)
    \/ ~TransportIs(ParsedManifest, {"stdio", "http", "sse"})
    \/ TransportIs(ParsedManifest, {"stdio"}) /\ MissingOrEmpty(ParsedManifest, "command", "")
    \/ TransportIs(ParsedManifest, {"http", "sse"}) /\ MissingOrEmpty(ParsedManifest, "url", "")

\* the properties the parser looks at have the types the manifest format gives them
WellTyped ==
    /\ ParsedManifest.t = "object"
    /\ \A f \in {"name", "transport", "command", "url"} :
          Field(ParsedManifest, f).t \in {"undefined", "string"}
    /\ Field(ParsedManifest, "args").t \in {"undefined", "array"}

\* C24: parsing a manifest text fails with an error and returns no server when the
\* text is no JSON, the name is missing or empty, the transport is none of stdio,
\* http and sse, a stdio manifest has no non-empty command, or an http / sse manifest
\* has no non-empty url; every other text with well-typed properties yields a server
\* whose transport kind is the manifest's
C24_ManifestValidation ==
    (cmd.kind = "parse" /\ cmd.done) =>
        /\ Rejectable =>
              /\ ~cmd.result.ok
              /\ cmd.result.error \in {"Invalid JSON", "Invalid server.json manifest"}
              /\ cmd.result.server = NoServer
        /\ (~Rejectable /\ WellTyped) =>
              /\ cmd.result.ok
              /\ cmd.result.server.transport.type = Field(ParsedManifest, "transport").s

\* an sse manifest without a url, with a name and a stray command, was rejected
C24_Witness ==
    /\ cmd.kind = "parse" /\ cmd.done
    /\ TransportIs(ParsedManifest, {"sse"})
    /\ Field(ParsedManifest, "url") = Undefined
    /\ Field(ParsedManifest, "name") = Str(<<"a">>)
    /\ Field(ParsedManifest, "command") = Str("node")
    /\ ~cmd.result.ok

----------------------------------------------------------------------------
(* Properties of the commands *)

\* the server-map in the config file of an agent at the scope of the run
InstalledMap(agent) == MapIn(agent, cfg[getConfigPath(agent, scope, cfg).path])

\* the targets the lock file lists for a server id; none without an entry
LockTargets(id) ==
    IF Has(readLockFile(lockFile).servers, id)
    THEN {readLockFile(lockFile).servers[id].targets[i] :
             i \in DOMAIN readLockFile(lockFile).servers[id].targets}
    ELSE {}

\* the agents whose line of the command's output carries the given word
AgentsReported(c, printed) ==
    {c.reports[i].agent : i \in {j \in DOMAIN c.reports : c.reports[j].printed = printed}}

\* an add command has returned
AddReturned == cmd.kind = "add" /\ Returned(cmd)

\* the agents the add command that returned installed its server to
InstalledTo ==
    {a \in AgentsReported(cmd, "installed") : Has(InstalledMap(a), serverName(cmd.input.name))}

\* C25: once an add command has installed its server to several agents, the lock
\* entry of the server lists a target for every one of those agents
C25_EveryAgentListed ==
    AddReturned => \A a \in InstalledTo : \E t \in LockTargets(cmd.input.name) : t.agent = a

\* C26: every target the lock entry of the server just added lists stands for an
\* install that succeeded: the config file of the target's agent holds the server
\* under the target's installedName
C26_TargetMeansInstalled ==
    AddReturned =>
        \A t \in LockTargets(cmd.input.name) :
            /\ t.agent \in AgentsReported(cmd, "installed")
            /\ Has(InstalledMap(t.agent), t.installedName)

\* the remove command that returned removed, from an agent, the server the add
\* command before it had installed there
RemovedWhatWasAdded ==
    /\ cmd.kind = "remove" /\ Returned(cmd)
    /\ cmd.earlier.kind = "add"
    /\ \E i \in DOMAIN cmd.reports :
          /\ cmd.reports[i].printed = "Removed"
          /\ cmd.reports[i].name = serverName(cmd.earlier.input.name)
          /\ cmd.reports[i].agent \in AgentsReported(cmd.earlier, "installed")

\* C27: once the remove command has removed a server the add command installed
\* under an id, the lock file has no entry for that id
C27_RemoveClearsLock ==
    RemovedWhatWasAdded => ~Has(readLockFile(lockFile).servers, cmd.earlier.input.name)

\* the loop of an add or remove command is under way or has ended
InLoop == cmd.kind \in {"add", "remove"}

\* the lines of the command's output that stand for an iteration of its loop
LoopReports == SelectSeq(cmd.reports, LAMBDA r : r.printed # "Server not found")

\* the iterations reported and the iterations left are, in order, the ones the
\* loop started with
InOrder ==
    /\ Len(LoopReports) + Len(cmd.queue) = Len(cmd.targets)
    /\ \A i \in DOMAIN LoopReports :
          /\ LoopReports[i].agent = cmd.targets[i].agent
          /\ LoopReports[i].name = cmd.targets[i].name
    /\ \A i \in DOMAIN cmd.queue : cmd.queue[i] = cmd.targets[Len(LoopReports) + i]

\* every iteration that failed is reported with its agent and the error
FailuresReported ==
    \A i \in DOMAIN LoopReports :
        LoopReports[i].printed \in {"failed", "Failed to remove"} <=> LoopReports[i].error # ""

\* a step of the loop changes no config file but the one of the agent it handles,
\* and a step that fails changes none
StepKeepsEarlierChanges ==
    (InLoop /\ ~Returned(cmd) /\ cmd' # cmd) =>
        /\ \A q \in Paths :
              q # getConfigPath(Head(cmd.queue).agent, scope, cfg).path => cfg'[q] = cfg[q]
        /\ cmd'.reports[Len(cmd'.reports)].error # "" => cfg' = cfg /\ cmd'.queue = Tail(cmd.queue)

\* C28: in a multi-agent add or remove command an error of one agent's addServer or
\* removeServer is reported for that agent and does not end the command: the
\* operation is attempted, in order, on every remaining target, and what was
\* changed for earlier agents stays changed
C28_ErrorsDoNotStop ==
    /\ [](InLoop => InOrder /\ FailuresReported)
    /\ [][StepKeepsEarlierChanges]_vars

\* an add command over three agents has returned: the second agent failed on a
\* file that does not parse, the first and the third hold the server
C28_Witness ==
    /\ AddReturned
    /\ Len(cmd.reports) = 3
    /\ cmd.reports[2].printed = "failed"
    /\ cmd.reports[2].error = InvalidConfig
    /\ cmd.reports[3].printed = "installed"
    /\ Has(InstalledMap(cmd.reports[3].agent), serverName(cmd.input.name))

\* C30: the list command reports, with the file's path, the read failure of every
\* queried agent whose config file exists and does not parse
C30_ListSurfacesFailure ==
    (cmd.kind = "list" /\ Returned(cmd)) =>
        \A a \in {b \in active : scope \in supportedScopes(b)} :
            cfg[getConfigPath(a, scope, cfg).path] = Corrupt =>
                \E i \in DOMAIN cmd.reports :
                    /\ cmd.reports[i].agent = a
                    /\ cmd.reports[i].error # ""
                    /\ cmd.reports[i].path = getConfigPath(a, scope, cfg).path

----------------------------------------------------------------------------
(* Properties of concurrent operations *)

\* the disk the processes started on
StartDisk == [files |-> last.pre, lock |-> hist.start]

\* the disk after the given operations ran one after another, each read followed
\* at once by its write
RECURSIVE Replay(_, _)
Replay(ops, disk) ==
    IF ops = <<>> THEN disk
    ELSE LET r == beginOp(Head(ops), scope, disk.files, disk.lock)
             w == writeOp(Head(ops), r, scope, disk.files, disk.lock, now)
         IN  Replay(Tail(ops),
                    IF r.ok THEN [files |-> w.files, lock |-> w.lock] ELSE disk)

\* the operations a process has ended, in order
EndedOps(p) == [i \in DOMAIN procs[p].log |-> procs[p].log[i].op]

\* a process that has not begun any operation
Untouched(p) == procs[p].inflight = <<>> /\ procs[p].log = <<>>

\* both processes ran one operation of the same kind on the same file for different
\* names, and the operation of `later` read the file before `earlier` wrote it
BothReadFirst(earlier, later) ==
    /\ earlier # later
    /\ \A p \in ProcIds : procs[p].pending = <<>> /\ procs[p].inflight = <<>>
                          /\ Len(procs[p].log) = 1
    /\ procs[earlier].log[1].op.kind = procs[later].log[1].op.kind
    /\ procs[later].log[1].op.kind \in {"addServer", "addLockEntry"}
    /\ procs[earlier].log[1].op.id # procs[later].log[1].op.id
    /\ procs[earlier].log[1].overlap = {}
    /\ procs[later].log[1].overlap = {earlier}

\* C21: when two processes each run one read-modify-write on the same file for
\* different names and both read before either writes, the file ends as if only
\* the later writer had run: the earlier writer's update is gone, and neither
\* operation reports an error
C21_LostUpdate ==
    procs # NoProcs =>
        \A earlier \in ProcIds, later \in ProcIds :
            BothReadFirst(earlier, later) =>
                /\ [files |-> cfg, lock |-> lockFile] = Replay(EndedOps(later), StartDisk)
                /\ [files |-> cfg, lock |-> lockFile]
                       # Replay(EndedOps(earlier) \o EndedOps(later), StartDisk)
                /\ procs[earlier].log[1].error = ""
                /\ procs[later].log[1].error = ""

\* both processes added a server to the config file, the second read it before the
\* first wrote, and the file holds the second's server only
C21_Witness ==
    /\ procs # NoProcs
    /\ BothReadFirst(1, 2)
    /\ procs[1].log[1].op = Op("addServer", <<"a">>)
    /\ ~Has(InstalledMap("claude-code"), <<"a">>)
    /\ Has(InstalledMap("claude-code"), <<"b">>)

\* C22: within one process no operation of the process writes a file between the
\* read and the write of another of its operations on that file, so the disk a
\* process leaves, when no other process has touched it, is the one its operations
\* give when each runs to its end before the next begins
C22_AtomicWithinProcess ==
    procs # NoProcs =>
        \A p \in ProcIds :
            /\ \A i \in DOMAIN procs[p].inflight : p \notin procs[p].inflight[i].overlap
            /\ \A i \in DOMAIN procs[p].log : p \notin procs[p].log[i].overlap
            /\ (procs[p].inflight = <<>> /\ \A q \in ProcIds \ {p} : Untouched(q)) =>
                   [files |-> cfg, lock |-> lockFile] = Replay(EndedOps(p), StartDisk)

\* the first process has added two servers to the config file while the other did
\* nothing, and the file holds both
C22_Witness ==
    /\ procs # NoProcs
    /\ Untouched(2)
    /\ Len(procs[1].log) = 2
    /\ procs[1].log[2].op = Op("addServer", <<"o", "/", "b">>)
    /\ Has(InstalledMap("claude-code"), <<"a">>)
    /\ Has(InstalledMap("claude-code"), <<"b">>)

====
